---- MODULE Spec2Model ----
(***************************************************************************)
(* Date normalization and week bucketing of the Daily Pulse app            *)
(* (src/services/storage.ts, the "ROBUST DATE PARSING ENGINE" revision,    *)
(* lines 139-258).                                                         *)
(*                                                                         *)
(* Strings are sequences of one-character strings.  An instant (the time   *)
(* value of a JavaScript Date) is a record [valid, day, ms]: day is the    *)
(* number of whole days since 1970-01-01 UTC and ms the milliseconds       *)
(* within that day, so that time value = day * 86400000 + ms; valid =      *)
(* FALSE is the NaN time value of an Invalid Date.  The runtime's time     *)
(* zone is a fixed offset of tz whole hours ahead of UTC.                  *)
(*                                                                         *)
(* Intermediate values are handed on as operator parameters (one operator  *)
(* per step of the code) rather than bound by LET.                         *)
(*                                                                         *)
(* Further parts: the ingestion of one response of the store by            *)
(* fetchAppData (storage.ts 260-374, FetchSpec), and the App component     *)
(* with its session, its refreshes and its handlers (src/App.tsx, AppSpec, *)
(* AppLiveSpec and EditSpec).                                              *)
(***************************************************************************)
EXTENDS Integers, Sequences, FiniteSets, TLC

VARIABLES input, tz, op, out, prev, raw, data,
          loading, isSyncing, users, currentUser, checkouts, tasks, weeklyGoals,
          interactions, dailyPulse_userId, store, posts, refreshes, rehydrate, mounted,
          now, calls

\* the state of the date functions and of one ingestion run
ingestVars == <<input, tz, op, out, prev, raw, data>>

\* the state of the App component, its session key, the store and the calls
\* in flight
appVars ==
    <<loading, isSyncing, users, currentUser, checkouts, tasks, weeklyGoals, interactions,
      dailyPulse_userId, store, posts, refreshes, rehydrate, mounted, now, calls>>

vars == <<ingestVars, appVars>>

\* null: no current user, no saved session (a userId is a string that is
\* not empty)
Null == <<>>

\* the App component is not part of the run
AppUnmounted ==
    /\ loading = TRUE /\ isSyncing = FALSE /\ users = <<>> /\ currentUser = Null
    /\ checkouts = <<>> /\ tasks = <<>> /\ weeklyGoals = <<>> /\ interactions = <<>>
    /\ dailyPulse_userId = Null
    /\ store = [users |-> <<>>, checkouts |-> <<>>, tasks |-> <<>>, weeklyGoals |-> <<>>,
                 interactions |-> <<>>]
    /\ posts = {} /\ refreshes = <<>> /\ rehydrate = <<>> /\ mounted = FALSE
    /\ now = 1 /\ calls = 0

(***************************************************************************)
(* Characters and strings                                                  *)
(***************************************************************************)
DigitChars == <<"0", "1", "2", "3", "4", "5", "6", "7", "8", "9">>

IsDigit(c) == c \in {"0", "1", "2", "3", "4", "5", "6", "7", "8", "9"}

DigitVal(c) == (CHOOSE i \in 1..10 : DigitChars[i] = c) - 1

\* WhiteSpace and LineTerminator of ECMAScript: tab, line feed, vertical tab,
\* form feed, carriage return, space, no-break space, the space separators
\* of Unicode, the line and paragraph separators and the byte order mark.
\* A character outside ASCII or without an escape is written as its code
\* point.
WhiteSpaceChars ==
    {"\t", "\n", "U+000B", "\f", "\r", " ", "U+00A0", "U+1680", "U+2000", "U+2001",
     "U+2002", "U+2003", "U+2004", "U+2005", "U+2006", "U+2007", "U+2008", "U+2009",
     "U+200A", "U+2028", "U+2029", "U+202F", "U+205F", "U+3000", "U+FEFF"}

IsSpace(c) == c \in WhiteSpaceChars

Clamp(x, n) == IF x < 0 THEN 0 ELSE IF x > n THEN n ELSE x

\* the characters of s from 0-based a (inclusive) to b (exclusive), a and b
\* swapped when a > b
SubstringClamped(s, a, b) ==
    IF a < b THEN SubSeq(s, a + 1, b) ELSE SubSeq(s, b + 1, a)

\* s.substring(a, b)
Substring(s, a, b) == SubstringClamped(s, Clamp(a, Len(s)), Clamp(b, Len(s)))

RECURSIVE TrimStart(_)
TrimStart(s) ==
    IF s # <<>> /\ IsSpace(Head(s)) THEN TrimStart(Tail(s)) ELSE s

RECURSIVE TrimEnd(_)
TrimEnd(s) ==
    IF s # <<>> /\ IsSpace(s[Len(s)]) THEN TrimEnd(SubSeq(s, 1, Len(s) - 1)) ELSE s

\* String.prototype.trim
Trim(s) == TrimEnd(TrimStart(s))

\* String.prototype.startsWith
StartsWith(s, p) == Len(s) >= Len(p) /\ SubSeq(s, 1, Len(p)) = p

AllDigits(s) == \A i \in 1..Len(s) : IsDigit(s[i])

\* length of the longest run of digits of s that starts at (1-based) index i
RECURSIVE DigitRun(_, _)
DigitRun(s, i) ==
    IF i <= Len(s) /\ IsDigit(s[i]) THEN 1 + DigitRun(s, i + 1) ELSE 0

\* value of a string of decimal digits (0 for the empty string)
RECURSIVE DigitsToNat(_)
DigitsToNat(s) ==
    IF s = <<>> THEN 0
    ELSE DigitsToNat(SubSeq(s, 1, Len(s) - 1)) * 10 + DigitVal(s[Len(s)])

\* String(n) for a natural number n
RECURSIVE NatToStr(_)
NatToStr(n) ==
    IF n < 10 THEN <<DigitChars[n + 1]>>
    ELSE NatToStr(n \div 10) \o <<DigitChars[(n % 10) + 1]>>

\* String(n) for an integer n
NumToStr(n) == IF n < 0 THEN <<"-">> \o NatToStr(-n) ELSE NatToStr(n)

\* s.padStart(2, '0')
PadStart2(s) == IF Len(s) < 2 THEN <<"0">> \o s ELSE s

\* `${NaN}-${NaN}-${NaN}` with the month and day padded to 2
NaNDateStr == <<"N", "a", "N", "-", "N", "a", "N", "-", "N", "a", "N">>

(***************************************************************************)
(* Time values and the calendar (ECMAScript Date)                          *)
(***************************************************************************)
msPerDay == 86400000

msPerHour == 3600000

msPerMinute == 60000

msPerSecond == 1000

\* the largest day number of a valid time value (8.64e15 ms)
MaxTimeDay == 100000000

NaNTime == [valid |-> FALSE, day |-> 0, ms |-> 0]

\* TimeClip of day d and millisecond r of the day
TimeClip(d, r) ==
    IF d > MaxTimeDay \/ d < -MaxTimeDay \/ (d = MaxTimeDay /\ r > 0)
    THEN NaNTime
    ELSE [valid |-> TRUE, day |-> d, ms |-> r]

\* the time value day * msPerDay + ms, for ms of any sign or size
MkTime(day, ms) == TimeClip(day + (ms \div msPerDay), ms % msPerDay)

\* days from the epoch to 1 March of year y plus mp months, in era y \div 400
DaysOfEra(era, yoe, mp) ==
    era * 146097 + yoe * 365 + (yoe \div 4) - (yoe \div 100)
        + ((153 * mp + 2) \div 5) - 719468

\* days from the epoch to the first day of month mn (1..12) of year ym
DaysFromCivil(ym, mn) ==
    IF mn <= 2
    THEN DaysOfEra((ym - 1) \div 400, (ym - 1) % 400, mn + 9)
    ELSE DaysOfEra(ym \div 400, ym % 400, mn - 3)

\* MakeDay(year, month, date) of ECMAScript: month is 0-based and may lie
\* outside 0..11, date may lie outside the month
MakeDay(year, month, date) ==
    DaysFromCivil(year + (month \div 12), (month % 12) + 1) + (date - 1)

CivilRecord(y, m, d) == [y |-> IF m <= 2 THEN y + 1 ELSE y, m |-> m, d |-> d]

CivilOfMonth(y, doy, mp) ==
    CivilRecord(y, IF mp < 10 THEN mp + 3 ELSE mp - 9, doy - ((153 * mp + 2) \div 5) + 1)

CivilOfDoy(y, doy) == CivilOfMonth(y, doy, (5 * doy + 2) \div 153)

CivilOfYoe(era, doe, yoe) ==
    CivilOfDoy(yoe + era * 400, doe - (365 * yoe + (yoe \div 4) - (yoe \div 100)))

CivilOfDoe(era, doe) ==
    CivilOfYoe(era, doe,
               (doe - (doe \div 1460) + (doe \div 36524) - (doe \div 146096)) \div 365)

\* YearFromTime, MonthFromTime (1-based here) and DateFromTime of day number z
CivilFromDays(z) == CivilOfDoe((z + 719468) \div 146097, (z + 719468) % 146097)

\* WeekDay of a day number: 0 = Sunday .. 6 = Saturday
WeekDay(z) == (z + 4) % 7

\* LocalTime(t): the local day and millisecond of a time value in a zone tzo
\* hours ahead of UTC
LocalTime(t, tzo) == MkTime(t.day, t.ms + tzo * msPerHour)

\* UTC(t): the time value of local time (day, ms) in a zone tzo hours ahead
FromLocal(day, ms, tzo) == MkTime(day, ms - tzo * msPerHour)

(***************************************************************************)
(* new Date(str): the engine's date parser (V8's DateParser).  The string  *)
(* is cut into tokens; an ES5 date-time string is read first, and whatever *)
(* that leaves unread goes to the legacy parser, which collects up to      *)
(* three numbers of the day, a named month, a time and a zone, and then    *)
(* composes them.                                                          *)
(***************************************************************************)
\* kNone: a component that was not set
kNone == 2147483647

\* the digits the tokenizer keeps of a number
kMaxSignificantDigits == 9

IsMonth(x) == x >= 1 /\ x <= 12

IsDay(x) == x >= 1 /\ x <= 31

IsHour(x) == x >= 0 /\ x <= 23

IsHour12(x) == x >= 0 /\ x <= 12

IsMinute(x) == x >= 0 /\ x <= 59

IsSecond(x) == x >= 0 /\ x <= 59

IsMillisecond(x) == x >= 0 /\ x <= 999

IsSep(c) == c = "-" \/ c = "/"

\* dddd-dd-dd at the start of s
HasYMDShape(s) ==
    /\ Len(s) >= 10
    /\ AllDigits(SubSeq(s, 1, 4)) /\ s[5] = "-"
    /\ AllDigits(SubSeq(s, 6, 7)) /\ s[8] = "-"
    /\ AllDigits(SubSeq(s, 9, 10))

RunsRecord(s, r1, r2) == [r1 |-> r1, r2 |-> r2, r3 |-> DigitRun(s, r1 + r2 + 3)]

RunsAfterFirst(s, r1) == RunsRecord(s, r1, DigitRun(s, r1 + 2))

\* the lengths of the digit runs at the start of s, after one more
\* character, and after another one
Runs(s) == RunsAfterFirst(s, DigitRun(s, 1))

UpperChars ==
    <<"A", "B", "C", "D", "E", "F", "G", "H", "I", "J", "K", "L", "M",
      "N", "O", "P", "Q", "R", "S", "T", "U", "V", "W", "X", "Y", "Z">>

LowerChars ==
    <<"a", "b", "c", "d", "e", "f", "g", "h", "i", "j", "k", "l", "m",
      "n", "o", "p", "q", "r", "s", "t", "u", "v", "w", "x", "y", "z">>

IsLetter(c) == \E i \in 1..26 : UpperChars[i] = c \/ LowerChars[i] = c

ToLowerChar(c) ==
    IF \E i \in 1..26 : UpperChars[i] = c
    THEN LowerChars[CHOOSE i \in 1..26 : UpperChars[i] = c]
    ELSE c

ToLower(s) == [i \in 1..Len(s) |-> ToLowerChar(s[i])]

\* the characters below 'A': the tokenizer reads every other character that
\* is no white space as part of a word
BelowA ==
    {"U+0000", "U+0001", "U+0002", "U+0003", "U+0004", "U+0005", "U+0006", "U+0007",
     "U+0008", "U+000E", "U+000F", "U+0010", "U+0011", "U+0012", "U+0013", "U+0014",
     "U+0015", "U+0016", "U+0017", "U+0018", "U+0019", "U+001A", "U+001B", "U+001C",
     "U+001D", "U+001E", "U+001F",
     "\t", "\n", "U+000B", "\f", "\r", " ", "!", "\"", "#", "$", "%", "&", "'", "(", ")",
     "*", "+", ",", "-", ".", "/", "0", "1", "2", "3", "4", "5", "6", "7", "8", "9",
     ":", ";", "<", "=", ">", "?", "@"}

IsAsciiAlphaOrAbove(c) == c \notin BelowA

\* the line terminators: white space to String.prototype.trim and to the
\* scanner's SkipWhiteSpace, but no white space to the test that ends a word
LineTerminators == {"\n", "\r", "U+2028", "U+2029"}

\* the character that stands for the end of the input in the scanner
EndOfInputChar == "U+0000"

IsEnd(s, i) == i > Len(s) \/ s[i] = EndOfInputChar

IsWordChar(c) == IsAsciiAlphaOrAbove(c) /\ c \notin WhiteSpaceChars \ LineTerminators

\* length of the word of s that starts at index i
RECURSIVE WordRun(_, _)
WordRun(s, i) ==
    IF i <= Len(s) /\ IsWordChar(s[i]) THEN 1 + WordRun(s, i + 1) ELSE 0

ParenDelta(c) == IF c = "(" THEN 1 ELSE IF c = ")" THEN -1 ELSE 0

\* SkipParentheses: the characters from the '(' at index i up to the ')'
\* that balances it, or up to the end of the input
RECURSIVE ParenRun(_, _, _)
ParenRunNext(s, i, balance) ==
    IF balance > 0 /\ ~IsEnd(s, i + 1) THEN 1 + ParenRun(s, i + 1, balance) ELSE 1

ParenRun(s, i, balance) == ParenRunNext(s, i, balance + ParenDelta(s[i]))

\* the month names of the legacy date parser, recognised by their first three
\* letters in either case
MonthNames ==
    << <<"j", "a", "n">>, <<"f", "e", "b">>, <<"m", "a", "r">>, <<"a", "p", "r">>,
       <<"m", "a", "y">>, <<"j", "u", "n">>, <<"j", "u", "l">>, <<"a", "u", "g">>,
       <<"s", "e", "p">>, <<"o", "c", "t">>, <<"n", "o", "v">>, <<"d", "e", "c">> >>

KeywordEntry(w, type, value) == [w |-> w, type |-> type, value |-> value]

\* the keywords after the month names: AM and PM, the zone names and their
\* offsets in hours, and the separator T of a date-time
OtherKeywords ==
    << KeywordEntry(<<"a", "m">>, "AM_PM", 0),
       KeywordEntry(<<"p", "m">>, "AM_PM", 12),
       KeywordEntry(<<"u", "t">>, "TIME_ZONE_NAME", 0),
       KeywordEntry(<<"u", "t", "c">>, "TIME_ZONE_NAME", 0),
       KeywordEntry(<<"z">>, "TIME_ZONE_NAME", 0),
       KeywordEntry(<<"g", "m", "t">>, "TIME_ZONE_NAME", 0),
       KeywordEntry(<<"c", "d", "t">>, "TIME_ZONE_NAME", -5),
       KeywordEntry(<<"c", "s", "t">>, "TIME_ZONE_NAME", -6),
       KeywordEntry(<<"e", "d", "t">>, "TIME_ZONE_NAME", -4),
       KeywordEntry(<<"e", "s", "t">>, "TIME_ZONE_NAME", -5),
       KeywordEntry(<<"m", "d", "t">>, "TIME_ZONE_NAME", -6),
       KeywordEntry(<<"m", "s", "t">>, "TIME_ZONE_NAME", -7),
       KeywordEntry(<<"p", "d", "t">>, "TIME_ZONE_NAME", -7),
       KeywordEntry(<<"p", "s", "t">>, "TIME_ZONE_NAME", -8),
       KeywordEntry(<<"t">>, "TIME_SEPARATOR", 0) >>

KeywordTable ==
    [i \in 1..12 |-> KeywordEntry(MonthNames[i], "MONTH_NAME", i)] \o OtherKeywords

\* the entry e is the word of len characters with the lower-case prefix pre:
\* only a month name may be longer than its keyword
KeywordMatches(e, pre, len) ==
    e.w = pre /\ (len <= 3 \/ e.type = "MONTH_NAME")

\* KeywordTable::Lookup: the index of the first entry that matches, one past
\* the table when none does
Lookup(pre, len) ==
    IF \E i \in 1..Len(KeywordTable) : KeywordMatches(KeywordTable[i], pre, len)
    THEN CHOOSE i \in 1..Len(KeywordTable) :
            /\ KeywordMatches(KeywordTable[i], pre, len)
            /\ \A j \in 1..(i - 1) : ~KeywordMatches(KeywordTable[j], pre, len)
    ELSE Len(KeywordTable) + 1

\* the tokens of the date string
EndOfInput == [tag |-> "end", symbol |-> "", type |-> "", value |-> 0, length |-> 0]

Unknown == [tag |-> "unknown", symbol |-> "", type |-> "", value |-> 0, length |-> 0]

WhiteSpace(len) ==
    [tag |-> "space", symbol |-> "", type |-> "", value |-> 0, length |-> len]

Number(n, len) ==
    [tag |-> "number", symbol |-> "", type |-> "", value |-> n, length |-> len]

Symbol(ch) == [tag |-> "symbol", symbol |-> ch, type |-> "", value |-> 0, length |-> 1]

Keyword(type, value, len) ==
    [tag |-> "keyword", symbol |-> "", type |-> type, value |-> value, length |-> len]

KeywordAt(index, len) ==
    IF index > Len(KeywordTable) THEN Keyword("INVALID", 0, len)
    ELSE Keyword(KeywordTable[index].type, KeywordTable[index].value, len)

\* the keyword token of the word w
KeywordOf(w) ==
    KeywordAt(Lookup(ToLower(SubSeq(w, 1, IF Len(w) < 3 THEN Len(w) ELSE 3)), Len(w)), Len(w))

RECURSIVE DropZeros(_)
DropZeros(ds) == IF ds # <<>> /\ Head(ds) = "0" THEN DropZeros(Tail(ds)) ELSE ds

FirstDigits(ds) ==
    SubSeq(ds, 1, IF Len(ds) < kMaxSignificantDigits THEN Len(ds) ELSE kMaxSignificantDigits)

\* ReadUnsignedNumeral: leading zeros skipped, then the first nine digits
ReadUnsignedNumeral(ds) == DigitsToNat(FirstDigits(DropZeros(ds)))

SymbolChars == {":", "-", "+", ".", ")"}

\* the number of characters of the token that starts at index i of s
ScanLength(s, i) ==
    IF IsDigit(s[i]) THEN DigitRun(s, i)
    ELSE IF s[i] \in SymbolChars THEN 1
    ELSE IF IsWordChar(s[i]) THEN WordRun(s, i)
    ELSE IF IsSpace(s[i]) THEN 1
    ELSE IF s[i] = "(" THEN ParenRun(s, i, 0)
    ELSE 1

\* DateStringTokenizer::Scan: the token of len characters at index i of s
Scan(s, i, len) ==
    IF IsDigit(s[i]) THEN Number(ReadUnsignedNumeral(SubSeq(s, i, i + len - 1)), len)
    ELSE IF s[i] \in SymbolChars THEN Symbol(s[i])
    ELSE IF IsWordChar(s[i]) THEN KeywordOf(SubSeq(s, i, i + len - 1))
    ELSE IF IsSpace(s[i]) THEN WhiteSpace(len)
    ELSE Unknown

\* the tokens of s from index i on
RECURSIVE ScanFrom(_, _)
ScanNext(s, i, len) == <<Scan(s, i, len)>> \o ScanFrom(s, i + len)

ScanFrom(s, i) == IF IsEnd(s, i) THEN <<>> ELSE ScanNext(s, i, ScanLength(s, i))

\* scanner.Peek() when the scanner stands before token p
Peek(toks, p) == IF p <= Len(toks) THEN toks[p] ELSE EndOfInput

IsNumber(t) == t.tag = "number"

IsFixedNumber(t, len) == t.tag = "number" /\ t.length = len

IsSymbol(t, ch) == t.tag = "symbol" /\ t.symbol = ch

IsAsciiSign(t) == t.tag = "symbol" /\ (t.symbol = "+" \/ t.symbol = "-")

AsciiSign(t) == IF t.symbol = "+" THEN 1 ELSE -1

IsKeywordType(t, type) == t.tag = "keyword" /\ t.type = type

IsKeywordZ(t) == IsKeywordType(t, "TIME_ZONE_NAME") /\ t.length = 1

IsEndOfInput(t) == t.tag = "end"

IsWhiteSpace(t) == t.tag = "space"

\* ReadMilliseconds: the first three digits of a fraction of a second
MsOfLength(number, length) ==
    IF length = 1 THEN number * 100
    ELSE IF length = 2 THEN number * 10
    ELSE IF length = 3 THEN number
    ELSE number \div (10 ^ (length - 3))

ReadMilliseconds(t) ==
    MsOfLength(t.value,
               IF t.length > kMaxSignificantDigits THEN kMaxSignificantDigits ELSE t.length)

\* the composers of the parser: the numbers of the day, the named month,
\* the numbers of the time and the AM/PM offset, the sign, hour and minute
\* of the zone; pos is the token the scanner stands before, read is
\* has_read_number, failed is the parse that returned false
Composers(pos, day) ==
    [pos |-> pos, failed |-> FALSE, day |-> day, named |-> kNone, iso |-> FALSE,
     time |-> <<>>, offset |-> kNone, sign |-> kNone, hour |-> kNone, minute |-> kNone,
     read |-> day # <<>>]

Failed(c) == [c EXCEPT !.failed = TRUE]

\* tz.Set(offset_in_hours)
SetZone(c, hours) ==
    [c EXCEPT !.sign = IF hours < 0 THEN -1 ELSE 1,
              !.hour = IF hours < 0 THEN -hours ELSE hours,
              !.minute = 0]

\* the ES5 date-time string was read to its end: a date alone is UTC
ES5Done(c) ==
    IF c.hour = kNone /\ c.time = <<>>
    THEN [SetZone(c, 0) EXCEPT !.iso = TRUE]
    ELSE [c EXCEPT !.iso = TRUE]

ES5End(toks, c) == IF IsEndOfInput(Peek(toks, c.pos)) THEN ES5Done(c) ELSE Failed(c)

\* [+-]hh:mm
ES5ZoneColon(toks, c, sign) ==
    IF /\ IsFixedNumber(Peek(toks, c.pos + 1), 2) /\ IsHour(Peek(toks, c.pos + 1).value)
       /\ IsSymbol(Peek(toks, c.pos + 2), ":")
       /\ IsFixedNumber(Peek(toks, c.pos + 3), 2) /\ IsMinute(Peek(toks, c.pos + 3).value)
    THEN ES5End(toks, [c EXCEPT !.pos = c.pos + 4, !.sign = sign,
                                !.hour = Peek(toks, c.pos + 1).value,
                                !.minute = Peek(toks, c.pos + 3).value])
    ELSE Failed(c)

\* [+-]hhmm
ES5ZoneHourMin(toks, c, sign, hourmin) ==
    IF IsHour(hourmin \div 100) /\ IsMinute(hourmin % 100)
    THEN ES5End(toks, [c EXCEPT !.pos = c.pos + 2, !.sign = sign,
                                !.hour = hourmin \div 100, !.minute = hourmin % 100])
    ELSE Failed(c)

ES5ZoneSigned(toks, c, sign) ==
    IF IsFixedNumber(Peek(toks, c.pos + 1), 4)
    THEN ES5ZoneHourMin(toks, c, sign, Peek(toks, c.pos + 1).value)
    ELSE ES5ZoneColon(toks, c, sign)

\* the optional zone: Z, or a signed offset
ES5Zone(toks, c) ==
    IF IsKeywordZ(Peek(toks, c.pos))
    THEN ES5End(toks, SetZone([c EXCEPT !.pos = c.pos + 1], 0))
    ELSE IF IsAsciiSign(Peek(toks, c.pos))
    THEN ES5ZoneSigned(toks, c, AsciiSign(Peek(toks, c.pos)))
    ELSE ES5End(toks, c)

\* the optional fraction of a second after the seconds
ES5Fraction(toks, c, is24) ==
    IF ~IsSymbol(Peek(toks, c.pos), ".") THEN ES5Zone(toks, c)
    ELSE IF ~IsNumber(Peek(toks, c.pos + 1)) \/ (is24 /\ Peek(toks, c.pos + 1).value > 0)
    THEN Failed(c)
    ELSE ES5Zone(toks, [c EXCEPT !.pos = c.pos + 2,
                                 !.time = c.time \o <<ReadMilliseconds(Peek(toks, c.pos + 1))>>])

\* the optional seconds after the minutes
ES5Seconds(toks, c, is24) ==
    IF ~IsSymbol(Peek(toks, c.pos), ":") THEN ES5Zone(toks, c)
    ELSE IF \/ ~IsFixedNumber(Peek(toks, c.pos + 1), 2)
            \/ ~IsSecond(Peek(toks, c.pos + 1).value)
            \/ (is24 /\ Peek(toks, c.pos + 1).value > 0)
    THEN Failed(c)
    ELSE ES5Fraction(toks, [c EXCEPT !.pos = c.pos + 2,
                                     !.time = c.time \o <<Peek(toks, c.pos + 1).value>>], is24)

\* HH:mm after the T; 24:00 is the only time of the hour 24
ES5HourMinute(toks, c, hour, minute) ==
    IF \/ ~IsFixedNumber(hour, 2) \/ hour.value > 24
       \/ ~IsSymbol(Peek(toks, c.pos + 1), ":")
       \/ ~IsFixedNumber(minute, 2) \/ ~IsMinute(minute.value)
       \/ (hour.value = 24 /\ minute.value > 0)
    THEN Failed(c)
    ELSE ES5Seconds(toks, [c EXCEPT !.pos = c.pos + 3,
                                    !.time = <<hour.value, minute.value>>], hour.value = 24)

\* after the date: the end, the T of a time, or the rest for the legacy
\* parser
ES5Time(toks, c) ==
    IF IsKeywordType(Peek(toks, c.pos), "TIME_SEPARATOR")
    THEN ES5HourMinute(toks, [c EXCEPT !.pos = c.pos + 1],
                       Peek(toks, c.pos + 1), Peek(toks, c.pos + 3))
    ELSE IF IsEndOfInput(Peek(toks, c.pos)) THEN ES5Done(c)
    ELSE c

\* -DD after the month
ES5Day(toks, c) ==
    IF ~IsSymbol(Peek(toks, c.pos), "-") THEN ES5Time(toks, c)
    ELSE IF IsFixedNumber(Peek(toks, c.pos + 1), 2) /\ IsDay(Peek(toks, c.pos + 1).value)
    THEN ES5Time(toks, [c EXCEPT !.pos = c.pos + 2,
                                 !.day = c.day \o <<Peek(toks, c.pos + 1).value>>])
    ELSE [c EXCEPT !.pos = c.pos + 1]

\* -MM after the year
ES5Month(toks, c) ==
    IF ~IsSymbol(Peek(toks, c.pos), "-") THEN ES5Time(toks, c)
    ELSE IF IsFixedNumber(Peek(toks, c.pos + 1), 2) /\ IsMonth(Peek(toks, c.pos + 1).value)
    THEN ES5Day(toks, [c EXCEPT !.pos = c.pos + 2,
                                !.day = c.day \o <<Peek(toks, c.pos + 1).value>>])
    ELSE [c EXCEPT !.pos = c.pos + 1]

\* a signed year of six digits; the sign goes to the legacy parser when no
\* six digits follow it, and -000000 is no year
ES5SignedYear(toks, sign, year) ==
    IF ~IsFixedNumber(year, 6) THEN Composers(1, <<>>)
    ELSE IF sign < 0 /\ year.value = 0 THEN Composers(3, <<>>)
    ELSE ES5Month(toks, Composers(3, <<sign * year.value>>))

\* ParseES5DateTime: the composers after the ES5 part, pos at the first
\* token it left unread
ParseES5DateTime(toks) ==
    IF IsAsciiSign(Peek(toks, 1)) THEN ES5SignedYear(toks, AsciiSign(Peek(toks, 1)), Peek(toks, 2))
    ELSE IF IsFixedNumber(Peek(toks, 1), 4) THEN ES5Month(toks, Composers(2, <<Peek(toks, 1).value>>))
    ELSE Composers(1, <<>>)

\* time.IsExpecting(n)
TimeIsExpecting(c, n) ==
    \/ (Len(c.time) = 1 /\ IsMinute(n))
    \/ (Len(c.time) = 2 /\ IsSecond(n))
    \/ (Len(c.time) = 3 /\ IsMillisecond(n))

\* tz.IsExpecting(n): the hour is there, the minute is not, and n is a minute
ZoneIsExpecting(c, n) == c.hour # kNone /\ c.minute = kNone /\ IsMinute(n)

\* tz.IsUTC()
ZoneIsUTC(c) == c.hour = 0 /\ c.minute = 0

\* time.Add(n), nothing when the four numbers of the time are there
TimeAdd(time, n) == IF Len(time) < 4 THEN time \o <<n>> ELSE time

RECURSIVE ZeroFill(_)
ZeroFill(time) == IF Len(time) < 4 THEN ZeroFill(time \o <<0>>) ELSE time

\* time.AddFinal(n)
TimeAddFinal(time, n) == IF Len(time) < 4 THEN ZeroFill(time \o <<n>>) ELSE time

\* scanner.SkipSymbol(ch) at token p: the token after it, or p
SkipSymbol(toks, p, ch) == IF IsSymbol(Peek(toks, p), ch) THEN p + 1 ELSE p

\* n:: starts a time of n hours and 0 minutes; n: adds n to the time and
\* passes over a '.' that follows
NumberColon(toks, c, n) ==
    IF IsSymbol(Peek(toks, c.pos + 1), ":")
    THEN IF c.time # <<>> THEN Failed(c)
         ELSE [c EXCEPT !.pos = c.pos + 2, !.time = <<n, 0>>]
    ELSE IF Len(c.time) >= 4 THEN Failed(c)
    ELSE [c EXCEPT !.pos = SkipSymbol(toks, c.pos + 1, "."), !.time = c.time \o <<n>>]

\* n. in a time: n and the fraction that must follow end the time
NumberFraction(toks, c, n) ==
    IF ~IsNumber(Peek(toks, c.pos + 1)) THEN Failed(c)
    ELSE [c EXCEPT !.pos = c.pos + 2,
                   !.time = TimeAddFinal(TimeAdd(c.time, n),
                                         ReadMilliseconds(Peek(toks, c.pos + 1)))]

\* the last number of a time must be followed by the end, white space, Z or
\* a sign
NumberEndsTime(toks, c, n) ==
    IF \/ IsEndOfInput(Peek(toks, c.pos)) \/ IsWhiteSpace(Peek(toks, c.pos))
       \/ IsKeywordZ(Peek(toks, c.pos)) \/ IsAsciiSign(Peek(toks, c.pos))
    THEN [c EXCEPT !.time = TimeAddFinal(c.time, n)]
    ELSE Failed(c)

\* a number that is no part of a time: the minutes of a zone, or one of the
\* three numbers of the day, with a '-' after it passed over
NumberOther(toks, c, n) ==
    IF ZoneIsExpecting(c, n) THEN [c EXCEPT !.minute = n]
    ELSE IF TimeIsExpecting(c, n) THEN NumberEndsTime(toks, c, n)
    ELSE IF Len(c.day) >= 3 THEN Failed(c)
    ELSE [c EXCEPT !.pos = SkipSymbol(toks, c.pos, "-"), !.day = c.day \o <<n>>]

\* a number, the scanner standing after it
NumberToken(toks, c, n) ==
    IF IsSymbol(Peek(toks, c.pos), ":") THEN NumberColon(toks, c, n)
    ELSE IF IsSymbol(Peek(toks, c.pos), ".")
    THEN IF TimeIsExpecting(c, n) THEN NumberFraction(toks, c, n)
         ELSE NumberOther(toks, [c EXCEPT !.pos = c.pos + 1], n)
    ELSE NumberOther(toks, c, n)

\* a word: AM or PM after a time, a month name, a zone name after a number;
\* any other word is illegal after a number and right before one
KeywordToken(toks, c, t) ==
    IF t.type = "AM_PM" /\ c.time # <<>> THEN [c EXCEPT !.offset = t.value]
    ELSE IF t.type = "MONTH_NAME"
    THEN [c EXCEPT !.named = t.value, !.pos = SkipSymbol(toks, c.pos, "-")]
    ELSE IF t.type = "TIME_ZONE_NAME" /\ c.read THEN SetZone(c, t.value)
    ELSE IF c.read \/ IsNumber(Peek(toks, c.pos)) THEN Failed(c)
    ELSE c

\* the offset n of length digits after a sign: hours before a ':', h or hh,
\* hmm or hhmm
SignedOffset(toks, c, n, length) ==
    IF IsSymbol(Peek(toks, c.pos), ":") THEN [c EXCEPT !.hour = n, !.minute = kNone]
    ELSE IF length = 1 \/ length = 2 THEN [c EXCEPT !.hour = n, !.minute = 0]
    ELSE IF length = 3 \/ length = 4 THEN [c EXCEPT !.hour = n \div 100, !.minute = n % 100]
    ELSE Failed(c)

\* a sign after UTC or after a time: the offset of the zone
SignToken(toks, c, t) ==
    IF IsNumber(Peek(toks, c.pos))
    THEN SignedOffset(toks, [c EXCEPT !.pos = c.pos + 1, !.sign = AsciiSign(t), !.read = TRUE],
                      Peek(toks, c.pos).value, Peek(toks, c.pos).length)
    ELSE SignedOffset(toks, [c EXCEPT !.sign = AsciiSign(t), !.read = TRUE], 0, 0)

\* one turn of the loop of the legacy parser on the token t, the scanner
\* standing after it
LegacyToken(toks, c, t) ==
    IF IsNumber(t) THEN NumberToken(toks, [c EXCEPT !.read = TRUE], t.value)
    ELSE IF t.tag = "keyword" THEN KeywordToken(toks, c, t)
    ELSE IF IsAsciiSign(t) /\ (ZoneIsUTC(c) \/ c.time # <<>>) THEN SignToken(toks, c, t)
    ELSE IF (IsAsciiSign(t) \/ IsSymbol(t, ")")) /\ c.read THEN Failed(c)
    ELSE c

\* the loop of the legacy parser over the tokens the ES5 part left
RECURSIVE LegacyParser(_, _)
LegacyParser(toks, c) ==
    IF c.failed \/ c.pos > Len(toks) THEN c
    ELSE LegacyParser(toks, LegacyToken(toks, [c EXCEPT !.pos = c.pos + 1], toks[c.pos]))

NoFields == [ok |-> FALSE, year |-> 0, month |-> 0, day |-> 0]

\* years 0..49 are 20xx and 50..99 are 19xx, except in an ES5 date
LegacyYear(year, iso) ==
    IF iso \/ year < 0 THEN year
    ELSE IF year <= 49 THEN year + 2000
    ELSE IF year <= 99 THEN year + 1900
    ELSE year

DayFields(year, month, day, iso) ==
    IF IsMonth(month) /\ IsDay(day)
    THEN [ok |-> TRUE, year |-> LegacyYear(year, iso), month |-> month, day |-> day]
    ELSE NoFields

\* the three numbers comp, missing ones being 1, without a named month:
\* year-month-day in an ES5 date or when the first is no day of a month,
\* month-day-year otherwise
DayOfNumbers(comp, iso) ==
    IF iso \/ ~IsDay(comp[1]) THEN DayFields(comp[1], comp[2], comp[3], iso)
    ELSE DayFields(comp[3], comp[1], comp[2], iso)

\* with a named month: the first number is the year when it is no day of a
\* month, the day otherwise
DayOfNamed(comp, named, iso) ==
    IF ~IsDay(comp[1]) THEN DayFields(comp[1], named, comp[2], iso)
    ELSE DayFields(comp[2], named, comp[1], iso)

RECURSIVE OneFill(_)
OneFill(day) == IF Len(day) < 3 THEN OneFill(day \o <<1>>) ELSE day

\* DayComposer::Write
DayWrite(c) ==
    IF c.day = <<>> THEN NoFields
    ELSE IF c.named = kNone THEN DayOfNumbers(OneFill(c.day), c.iso)
    ELSE DayOfNamed(OneFill(c.day), c.named, c.iso)

NoClock == [ok |-> FALSE, ms |-> 0]

\* the milliseconds of the day of hour:minute:second.millisecond; 24:00:00
\* is the only time of the hour 24
ClockOf(hour, minute, second, millisecond) ==
    IF \/ (IsHour(hour) /\ IsMinute(minute) /\ IsSecond(second) /\ IsMillisecond(millisecond))
       \/ (hour = 24 /\ minute = 0 /\ second = 0 /\ millisecond = 0)
    THEN [ok |-> TRUE,
          ms |-> hour * msPerHour + minute * msPerMinute + second * msPerSecond + millisecond]
    ELSE NoClock

\* the hour of a time with AM (offset 0) or PM (offset 12)
ClockOfHour12(time, offset) ==
    IF IsHour12(time[1]) THEN ClockOf((time[1] % 12) + offset, time[2], time[3], time[4])
    ELSE NoClock

\* TimeComposer::Write
TimeWriteFilled(time, offset) ==
    IF offset # kNone THEN ClockOfHour12(time, offset)
    ELSE ClockOf(time[1], time[2], time[3], time[4])

TimeWrite(c) == TimeWriteFilled(ZeroFill(c.time), c.offset)

\* x * k modulo 2^30, for 0 <= x < 2^30 and 0 <= k <= 1024, computed on the
\* two halves of x so that no product leaves the 32-bit integers
MulMod30(x, k) ==
    ((((x \div 32768) * k) % 32768) * 32768 + (x % 32768) * k) % 1073741824

\* a quarter of (hour * 3600 + minute * 60) modulo 2^32, the unsigned 32-bit
\* total_seconds of the composer
QuarterSeconds(hour, minute) ==
    (MulMod30(hour % 1073741824, 900) + MulMod30(minute % 1073741824, 15)) % 1073741824

\* the offset of q quarter seconds: Write fails on a total above 2^31 - 1
ZoneOfQuarters(sign, q) ==
    IF q >= 536870912 THEN [ok |-> FALSE, local |-> FALSE, seconds |-> 0]
    ELSE [ok |-> TRUE, local |-> FALSE, seconds |-> sign * (4 * q)]

\* TimeZoneComposer::Write: the offset in seconds; local is the time
\* without a zone
ZoneSeconds(sign, hour, minute) == ZoneOfQuarters(sign, QuarterSeconds(hour, minute))

ZoneWrite(c) ==
    IF c.sign = kNone THEN [ok |-> TRUE, local |-> TRUE, seconds |-> 0]
    ELSE ZoneSeconds(c.sign, IF c.hour = kNone THEN 0 ELSE c.hour,
                     IF c.minute = kNone THEN 0 ELSE c.minute)

\* the years around the range of the time values; a day of a year outside
\* is no time value
MaxParsedYear == 300000

\* the time value of the day and the time: in the zone of the string, or
\* local time in a zone tzo hours ahead of UTC
ParsedInstant(day, ms, zone, tzo) ==
    IF zone.local THEN FromLocal(day, ms, tzo)
    ELSE MkTime(day - (zone.seconds \div 86400), ms - (zone.seconds % 86400) * msPerSecond)

ParsedTime(d, clock, zone, tzo) ==
    IF ~(d.ok /\ clock.ok /\ zone.ok) THEN NaNTime
    ELSE IF d.year > MaxParsedYear \/ d.year < -MaxParsedYear THEN NaNTime
    ELSE ParsedInstant(MakeDay(d.year, d.month - 1, d.day), clock.ms, zone, tzo)

\* DateParser::Parse and the time value made of its output
ComposeTime(c, tzo) ==
    IF c.failed THEN NaNTime ELSE ParsedTime(DayWrite(c), TimeWrite(c), ZoneWrite(c), tzo)

ParseTokens(toks, tzo) == ComposeTime(LegacyParser(toks, ParseES5DateTime(toks)), tzo)

\* new Date(str).getTime() in a zone tzo hours ahead of UTC
DateParse(s, tzo) == ParseTokens(ScanFrom(s, 1), tzo)

(***************************************************************************)
(* parseInt(str) of the payload of "Date(<milliseconds>)", as a time value *)
(***************************************************************************)
ZeroPad ==
    <<"0", "0", "0", "0", "0", "0", "0", "0", "0", "0", "0", "0", "0", "0", "0", "0">>

RECURSIVE StripZeros(_)
StripZeros(ds) ==
    IF Len(ds) > 1 /\ Head(ds) = "0" THEN StripZeros(Tail(ds)) ELSE ds

SignedTime(day, ms, neg) == IF neg THEN MkTime(-day, -ms) ELSE MkTime(day, ms)

\* the time value (qh * 10^5 * 864 + x) * 10^5 + lo milliseconds
TimeOfQuotient(qh, x, lo, neg) ==
    SignedTime(qh * 100000 + (x \div 864), (x % 864) * 100000 + lo, neg)

\* the time value hi * 10^10 + mid * 10^5 + lo milliseconds, divided by
\* msPerDay = 864 * 10^5 in two steps
TimeOfChunks(hi, mid, lo, neg) ==
    TimeOfQuotient(hi \div 864, (hi % 864) * 100000 + mid, lo, neg)

\* the time value of 16 digits
TimeOfPadded(p, neg) ==
    TimeOfChunks(DigitsToNat(SubSeq(p, 1, 6)), DigitsToNat(SubSeq(p, 7, 11)),
                 DigitsToNat(SubSeq(p, 12, 16)), neg)

\* new Date(n) for the number n of the digits ds: more than 16 digits are
\* beyond the range of a time value
TimeOfDigits(ds, neg) ==
    IF Len(ds) > 16 THEN NaNTime
    ELSE TimeOfPadded(SubSeq(ZeroPad, 1, 16 - Len(ds)) \o ds, neg)

ParseIntRun(ds, neg) ==
    IF ds = <<>> THEN [nan |-> TRUE, t |-> NaNTime]
    ELSE [nan |-> FALSE, t |-> TimeOfDigits(StripZeros(ds), neg)]

HexChars ==
    <<"0", "1", "2", "3", "4", "5", "6", "7", "8", "9", "a", "b", "c", "d", "e", "f">>

IsHexDigit(c) == \E i \in 1..16 : HexChars[i] = ToLowerChar(c)

HexVal(c) == (CHOOSE i \in 1..16 : HexChars[i] = ToLowerChar(c)) - 1

\* length of the longest run of hexadecimal digits of s that starts at index i
RECURSIVE HexRun(_, _)
HexRun(s, i) ==
    IF i <= Len(s) /\ IsHexDigit(s[i]) THEN 1 + HexRun(s, i + 1) ELSE 0

\* 16 times the days and milliseconds of acc plus x, big once the days are
\* beyond the range of a time value
HexShift(acc, x) ==
    IF acc.big \/ acc.day * 16 + (x \div msPerDay) > MaxTimeDay
    THEN [big |-> TRUE, day |-> 0, ms |-> 0]
    ELSE [big |-> FALSE, day |-> acc.day * 16 + (x \div msPerDay), ms |-> x % msPerDay]

\* the number of the hexadecimal digits ds after acc, as days and milliseconds
RECURSIVE HexNumber(_, _)
HexNumber(ds, acc) ==
    IF ds = <<>> THEN acc
    ELSE HexNumber(Tail(ds), HexShift(acc, acc.ms * 16 + HexVal(Head(ds))))

TimeOfHex(n, neg) == IF n.big THEN NaNTime ELSE SignedTime(n.day, n.ms, neg)

\* new Date(n) for the number n of the hexadecimal digits ds
ParseIntHexRun(ds, neg) ==
    IF ds = <<>> THEN [nan |-> TRUE, t |-> NaNTime]
    ELSE [nan |-> FALSE,
          t |-> TimeOfHex(HexNumber(ds, [big |-> FALSE, day |-> 0, ms |-> 0]), neg)]

\* without a radix, 0x or 0X starts a hexadecimal number
HasHexPrefix(b) == Len(b) >= 2 /\ b[1] = "0" /\ (b[2] = "x" \/ b[2] = "X")

ParseIntDigits(b, neg) ==
    IF HasHexPrefix(b) THEN ParseIntHexRun(SubSeq(b, 3, 2 + HexRun(b, 3)), neg)
    ELSE ParseIntRun(SubSeq(b, 1, DigitRun(b, 1)), neg)

ParseIntSigned(w) ==
    IF w # <<>> /\ (Head(w) = "-" \/ Head(w) = "+")
    THEN ParseIntDigits(Tail(w), Head(w) = "-")
    ELSE ParseIntDigits(w, FALSE)

\* new Date(parseInt(s)): nan when parseInt gives NaN; parseInt passes over
\* the white space at the start of s
ParseIntTime(s) == ParseIntSigned(TrimStart(s))

(***************************************************************************)
(* normalizeDate and formatDateWithNoonPivot (storage.ts 160-228)          *)
(***************************************************************************)
\* the 12 hours of the pivot, in milliseconds
PivotMs == 43200000

\* an input value: null/undefined/'' (falsy), a Date object, a string, or a
\* number
NullInput == [kind |-> "null", s |-> <<>>, t |-> NaNTime]

DateInput(t) == [kind |-> "date", s |-> <<>>, t |-> t]

StrInput(s) == [kind |-> "str", s |-> s, t |-> NaNTime]

\* a number as a value, with String(n) as its text
NumInput(n) == [kind |-> "num", s |-> NatToStr(n), t |-> NaNTime]

\* !input: null, undefined, the empty string, the number 0 and NaN
IsFalsy(in) ==
    \/ in.kind = "null"
    \/ (in.kind = "str" /\ in.s = <<>>)
    \/ (in.kind = "num" /\ in.s \in {<<"0">>, <<"N", "a", "N">>})

\* `${y}-${m}-${dStr}` of getUTCFullYear, getUTCMonth + 1 and getUTCDate
FormatUTCFields(c) ==
    NumToStr(c.y) \o <<"-">> \o PadStart2(NumToStr(c.m)) \o <<"-">> \o PadStart2(NumToStr(c.d))

\* the UTC fields of a Date, NaN for an Invalid Date
FormatUTCDate(adjusted) ==
    IF adjusted.valid THEN FormatUTCFields(CivilFromDays(adjusted.day)) ELSE NaNDateStr

\* formatDateWithNoonPivot reading the UTC date without adding the 12 hours
formatDateWithNoonPivot_NoPivot(d) == FormatUTCDate(d)

\* the UTC date of d + 12 h
formatDateWithNoonPivot(d) ==
    FormatUTCDate(IF d.valid THEN MkTime(d.day, d.ms + PivotMs) ELSE NaNTime)

\* /^\d{4}-\d{2}-\d{2}$/.test(str)
IsStrictYMD(str) == Len(str) = 10 /\ HasYMDShape(str)

DatePrefix == <<"D", "a", "t", "e", "(">>

NoDate == [some |-> FALSE, t |-> NaNTime]

\* date = new Date(timestamp) unless the timestamp is NaN
DateOfTimestamp(p) == IF p.nan THEN NoDate ELSE [some |-> TRUE, t |-> p.t]

\* date = parsed unless parsed is an Invalid Date
DateOfParsed(parsed) == IF parsed.valid THEN [some |-> TRUE, t |-> parsed] ELSE NoDate

\* step 3: the Date the string parses to, if any; [some |-> FALSE] is null
ParseToDate(str, tzo) ==
    IF StartsWith(str, DatePrefix)
    THEN DateOfTimestamp(ParseIntTime(Substring(str, 5, Len(str) - 1)))
    ELSE DateOfParsed(DateParse(str, tzo))

NoMatch == [some |-> FALSE, g1 |-> <<>>, g2 |-> <<>>, g3 |-> <<>>]

\* the groups of the D/M/Y pattern on the digit runs r of str
DmyGroups(str, r) ==
    IF /\ r.r1 >= 1 /\ r.r1 <= 2
       /\ Len(str) >= r.r1 + 1 /\ IsSep(str[r.r1 + 1])
       /\ r.r2 >= 1 /\ r.r2 <= 2
       /\ Len(str) >= r.r1 + r.r2 + 2 /\ IsSep(str[r.r1 + r.r2 + 2])
       /\ r.r3 >= 4
    THEN [some |-> TRUE,
          g1 |-> SubSeq(str, 1, r.r1),
          g2 |-> SubSeq(str, r.r1 + 2, r.r1 + r.r2 + 1),
          g3 |-> SubSeq(str, r.r1 + r.r2 + 3, r.r1 + r.r2 + 6)]
    ELSE NoMatch

\* str.match(/^(\d{1,2})[\-\/](\d{1,2})[\-\/](\d{4})/)
DmyMatch(str) == DmyGroups(str, Runs(str))

\* the day/month heuristic of lines 206-207 and the template of line 209
DmyFields(p1, p2, y) ==
    y \o <<"-">> \o PadStart2(NumToStr(IF p1 > 12 THEN p2 ELSE p1))
      \o <<"-">> \o PadStart2(NumToStr(IF p1 > 12 \/ (p2 <= 12 /\ p1 <= 31) THEN p1 ELSE p2))

\* step 4: the date rebuilt from the matched groups
DmyRebuild(dmy) == DmyFields(DigitsToNat(dmy.g1), DigitsToNat(dmy.g2), dmy.g3)

\* the value of a call that ends in an uncaught exception
Thrown == <<"TypeError">>

\* RebuildOrPrefix reading dmy[1] without the null check of line 200
RebuildOrPrefix_Unchecked(str, dmy) == IF dmy.some THEN DmyRebuild(dmy) ELSE Thrown

\* the rebuilt date if the pattern matched, else the first 10 characters
RebuildOrPrefix(str, dmy) == IF dmy.some THEN DmyRebuild(dmy) ELSE Substring(str, 0, 10)

\* DmyOrPrefix returning the whole string as the last resort
DmyOrPrefix_NoCut(str) ==
    IF DmyMatch(str).some THEN DmyRebuild(DmyMatch(str)) ELSE str

\* steps 4 and 5: D/M/Y reconstruction, else last resort
DmyOrPrefix(str) == RebuildOrPrefix(str, DmyMatch(str))

\* if (date) return formatDateWithNoonPivot(date), else steps 4 and 5
FormatOrFallback(str, date) ==
    IF date.some THEN formatDateWithNoonPivot(date.t) ELSE DmyOrPrefix(str)

\* steps 3 to 5 for a string that is not strictly YYYY-MM-DD
ParseOrFallback(str, tzo) == FormatOrFallback(str, ParseToDate(str, tzo))

\* NormalizeString without the strict YYYY-MM-DD fast path of lines 172-174
NormalizeString_NoFastPath(str, tzo) == ParseOrFallback(str, tzo)

\* steps 2 to 5 on the trimmed string
NormalizeString(str, tzo) ==
    IF IsStrictYMD(str) THEN str ELSE ParseOrFallback(str, tzo)

normalizeDate(in, tzo) ==
    IF IsFalsy(in) THEN <<>>
    ELSE IF in.kind = "date" THEN formatDateWithNoonPivot(in.t)
    ELSE NormalizeString(Trim(in.s), tzo)

(***************************************************************************)
(* snapToMonday (storage.ts 234-258)                                       *)
(***************************************************************************)
\* index of the first '-' of s, 0 if there is none
FirstDash(s) ==
    IF \E k \in 1..Len(s) : s[k] = "-"
    THEN CHOOSE k \in 1..Len(s) : s[k] = "-" /\ \A j \in 1..(k - 1) : s[j] # "-"
    ELSE 0

RECURSIVE SplitAt(_, _)
SplitAt(s, i) ==
    IF i = 0 THEN <<s>>
    ELSE <<SubSeq(s, 1, i - 1)>>
             \o SplitAt(SubSeq(s, i + 1, Len(s)), FirstDash(SubSeq(s, i + 1, Len(s))))

\* s.split('-')
Split(s) == SplitAt(s, FirstDash(s))

(***************************************************************************)
(* Number values.  A Number is NaN, an infinity, or a finite double.  A    *)
(* finite double is kept as the decimal text Number::toString writes for   *)
(* it: the value (-1)^neg * 0.d1 d2 ... dk * 10^point, where d1 .. dk are  *)
(* the fewest digits that read back as the same double; no digits is zero. *)
(* A literal is rounded to the nearest double, ties to the even            *)
(* significand, by exact arithmetic on decimal digits of any length.       *)
(***************************************************************************)
NaNNumber == [nan |-> TRUE, inf |-> FALSE, neg |-> FALSE, digits |-> <<>>, point |-> 0]

Infinite(neg) == [nan |-> FALSE, inf |-> TRUE, neg |-> neg, digits |-> <<>>, point |-> 0]

Zero(neg) == [nan |-> FALSE, inf |-> FALSE, neg |-> neg, digits |-> <<>>, point |-> 0]

FiniteNumber(neg, digits, point) ==
    [nan |-> FALSE, inf |-> FALSE, neg |-> neg, digits |-> digits, point |-> point]

IsFiniteNumber(p) == ~p.nan /\ ~p.inf

\* the exponents of the finite doubles lie far inside this bound; a larger
\* exponent of a literal is read as the bound
MaxExponent == 1000000

\* a value of 10^309 or more is beyond the largest double
OverflowPoint == 309

\* a value below 10^-324 is below half of the least double
UnderflowPoint == -323

\* a decimal of at most 15 significant digits between 10^-307 and 10^308 is
\* the shortest text of the double nearest to it
ExactDigits == 15

MinExactPoint == -306

MaxExactPoint == 308

\* the double m * 2^q: m below 2^53, and q from -1074 to 971
MinBinaryExponent == -1074

MaxBinaryExponent == 971

RECURSIVE DropTrailingZeros(_)
DropTrailingZeros(ds) ==
    IF ds # <<>> /\ ds[Len(ds)] = "0" THEN DropTrailingZeros(SubSeq(ds, 1, Len(ds) - 1))
    ELSE ds

\* the number of zeros of ds from index i on, up to the first other digit
RECURSIVE ZeroRun(_, _)
ZeroRun(ds, i) == IF i <= Len(ds) /\ ds[i] = "0" THEN 1 + ZeroRun(ds, i + 1) ELSE 0

Zeros(n) == [i \in 1..n |-> "0"]

PadRight(ds, n) == ds \o Zeros(n - Len(ds))

\* a < b for digit strings of the same length
RECURSIVE DigitsLess(_, _)
DigitsLess(a, b) ==
    IF a = <<>> THEN FALSE
    ELSE IF a[1] # b[1] THEN DigitVal(a[1]) < DigitVal(b[1])
    ELSE DigitsLess(Tail(a), Tail(b))

\* the decimal digits of dec * k + carry, for a factor k of at most 16
RECURSIVE MulAdd(_, _, _)
MulAddLast(dec, k, v) ==
    MulAdd(SubSeq(dec, 1, Len(dec) - 1), k, v \div 10) \o <<DigitChars[(v % 10) + 1]>>

MulAdd(dec, k, carry) ==
    IF dec = <<>> THEN (IF carry = 0 THEN <<>> ELSE NatToStr(carry))
    ELSE MulAddLast(dec, k, DigitVal(dec[Len(dec)]) * k + carry)

\* A decimal of any length: the value 0.d1 d2 ... dn * 10^p of the digits d,
\* numbers from 0 to 9 of which the first and the last are not 0
Decimal(d, p) == [d |-> d, p |-> p]

DigitAt(d, i) == IF i >= 1 /\ i <= Len(d) THEN d[i] ELSE 0

\* the digit at index i of twice d: the carry into a digit depends on the
\* digit to its right alone
TwiceDigit(d, i) == (2 * DigitAt(d, i) + (IF DigitAt(d, i + 1) >= 5 THEN 1 ELSE 0)) % 10

\* 2 * w
Twice(w) ==
    Decimal([i \in 1..(Len(w.d) + (IF w.d[1] >= 5 THEN 1 ELSE 0)
                          - (IF w.d[Len(w.d)] = 5 THEN 1 ELSE 0)) |->
                TwiceDigit(w.d, IF w.d[1] >= 5 THEN i - 1 ELSE i)],
            IF w.d[1] >= 5 THEN w.p + 1 ELSE w.p)

\* the digit at index i of half of d: the remainder of the digit to its left
\* comes in
HalfDigit(d, i) == (DigitAt(d, i) + 10 * (DigitAt(d, i - 1) % 2)) \div 2

\* w / 2
Half(w) ==
    Decimal([i \in 1..(Len(w.d) + (IF w.d[Len(w.d)] % 2 = 1 THEN 1 ELSE 0)
                          - (IF w.d[1] = 1 THEN 1 ELSE 0)) |->
                HalfDigit(w.d, IF w.d[1] = 1 THEN i + 1 ELSE i)],
            IF w.d[1] = 1 THEN w.p - 1 ELSE w.p)

\* w * 2^(2^k) and w / 2^(2^k)
RECURSIVE TwicePow(_, _)
TwicePow(w, k) ==
    IF Len(w.d) = 0 THEN w
    ELSE IF k = 0 THEN Twice(w)
    ELSE TwicePow(TwicePow(w, k - 1), k - 1)

RECURSIVE HalfPow(_, _)
HalfPow(w, k) ==
    IF Len(w.d) = 0 THEN w
    ELSE IF k = 0 THEN Half(w)
    ELSE HalfPow(HalfPow(w, k - 1), k - 1)

\* w * 2^(e * 2^k) and w / 2^(e * 2^k), bit by bit of e
RECURSIVE TwiceBits(_, _, _)
TwiceBits(w, e, k) ==
    IF Len(w.d) = 0 \/ e = 0 THEN w
    ELSE IF e % 2 = 1 THEN TwiceBits(TwicePow(w, k), e \div 2, k + 1)
    ELSE TwiceBits(w, e \div 2, k + 1)

RECURSIVE HalfBits(_, _, _)
HalfBits(w, e, k) ==
    IF Len(w.d) = 0 \/ e = 0 THEN w
    ELSE IF e % 2 = 1 THEN HalfBits(HalfPow(w, k), e \div 2, k + 1)
    ELSE HalfBits(w, e \div 2, k + 1)

\* w * 2^e
Pow2(w, e) == IF e >= 0 THEN TwiceBits(w, e, 0) ELSE HalfBits(w, -e, 0)

\* a < b for the digits of two decimals with the same p, n digits compared
DigitsBelow(a, b, n) ==
    \E i \in 1..n :
        /\ DigitAt(a, i) < DigitAt(b, i)
        /\ \A j \in 1..(i - 1) : DigitAt(a, j) = DigitAt(b, j)

\* a < b
DecimalLess(a, b) ==
    \/ a.p < b.p
    \/ (a.p = b.p /\ DigitsBelow(a.d, b.d, IF Len(a.d) > Len(b.d) THEN Len(a.d) ELSE Len(b.d)))

\* 2^52 and 2^53
Two52 == Decimal(<<4, 5, 0, 3, 5, 9, 9, 6, 2, 7, 3, 7, 0, 4, 9, 6>>, 16)

Two53 == Decimal(<<9, 0, 0, 7, 1, 9, 9, 2, 5, 4, 7, 4, 0, 9, 9, 2>>, 16)

\* w * 2^q with w scaled into 2^52 <= w < 2^53, or with q = -1074 and w
\* below 2^52: the integer part of w is the significand before rounding
RECURSIVE Scaled(_, _)
Scaled(w, q) ==
    IF ~DecimalLess(w, Two53) THEN Scaled(Half(w), q + 1)
    ELSE IF DecimalLess(w, Two52) /\ q > MinBinaryExponent THEN Scaled(Twice(w), q - 1)
    ELSE [w |-> w, q |-> q]

\* an exponent q near the one that scales a decimal of p integer digits:
\* 10^(p - 1) is about 2^(3.322 * (p - 1))
NearExponent(p) ==
    IF ((p - 1) * 3322) \div 1000 - 52 < MinBinaryExponent THEN MinBinaryExponent
    ELSE ((p - 1) * 3322) \div 1000 - 52

ScaledFrom(w, q) == Scaled(Pow2(w, -q), q)

\* the digits of the integer part of w
IntegerDigits(w) == [i \in 1..w.p |-> DigitAt(w.d, i)]

\* the fraction of w is above a half, or it is a half and the integer part
\* is odd
RoundsUp(w) ==
    /\ w.p >= 0
    /\ \/ DigitAt(w.d, w.p + 1) > 5
       \/ /\ DigitAt(w.d, w.p + 1) = 5
          /\ (Len(w.d) > w.p + 1 \/ DigitAt(w.d, w.p) % 2 = 1)

\* m + 1 and m - 1 on the digits of an integer m; no digits is 0
RECURSIVE Succ(_)
Succ(m) ==
    IF m = <<>> THEN <<1>>
    ELSE IF m[Len(m)] = 9 THEN Succ(SubSeq(m, 1, Len(m) - 1)) \o <<0>>
    ELSE SubSeq(m, 1, Len(m) - 1) \o <<m[Len(m)] + 1>>

RECURSIVE Pred(_)
Pred(m) ==
    IF m[Len(m)] = 0 THEN Pred(SubSeq(m, 1, Len(m) - 1)) \o <<9>>
    ELSE SubSeq(m, 1, Len(m) - 1) \o <<m[Len(m)] - 1>>

\* the digits of m * k + carry, for a factor k of at most 16
RECURSIVE IntMulAdd(_, _, _)
IntMulAddLast(m, k, v) == IntMulAdd(SubSeq(m, 1, Len(m) - 1), k, v \div 10) \o <<v % 10>>

IntMulAdd(m, k, carry) ==
    IF m = <<>> THEN (IF carry = 0 THEN <<>> ELSE IF carry >= 10 THEN <<carry \div 10, carry % 10>>
                      ELSE <<carry>>)
    ELSE IntMulAddLast(m, k, m[Len(m)] * k + carry)

\* the zeros at the start and at the end of the digits d
RECURSIVE LeadingZeros(_, _)
LeadingZeros(d, i) == IF i <= Len(d) /\ d[i] = 0 THEN 1 + LeadingZeros(d, i + 1) ELSE 0

RECURSIVE TrailingZeros(_, _)
TrailingZeros(d, i) == IF i >= 1 /\ d[i] = 0 THEN 1 + TrailingZeros(d, i - 1) ELSE 0

\* the decimal 0.d * 10^p of digits d that may start and end with zeros, and
\* are not all zeros
DecimalOfCut(d, p, lead, trail) == Decimal(SubSeq(d, lead + 1, Len(d) - trail), p - lead)

DecimalOfDigits(d, p) ==
    DecimalOfCut(d, p, LeadingZeros(d, 1), TrailingZeros(d, Len(d)))

\* the decimal of the integer of digits m
DecimalOfInteger(m) == DecimalOfDigits(m, Len(m))

\* the bounds of the decimals that round to the double m * 2^q, in units
\* of 2^(q - 2): half a step above 4m, and half a step below it, where the
\* step below a power of two is half as wide
HighBound(m, q) == Pow2(DecimalOfInteger(IntMulAdd(m, 4, 2)), q - 2)

LowBound(m, q) ==
    Pow2(DecimalOfInteger(IntMulAdd(Pred(m), 4,
                                    IF m = Two52.d /\ q > MinBinaryExponent THEN 3 ELSE 2)),
         q - 2)

\* the value of the double m * 2^q
ValueOf(m, q) == Pow2(DecimalOfInteger(m), q)

\* the first k digits of v, and the next decimal of k digits above them
CutDown(v, k) == DecimalOfDigits(SubSeq(v.d, 1, k), v.p)

CutUpOf(s, p, k) == DecimalOfDigits(s, IF Len(s) > k THEN p + 1 ELSE p)

CutUp(v, k) == CutUpOf(Succ(SubSeq(v.d, 1, k)), v.p, k)

\* v is nearer to CutUp(v, k) than to CutDown(v, k), or as near with an odd
\* last digit below
UpIsNearer(v, k) ==
    \/ DigitAt(v.d, k + 1) > 5
    \/ /\ DigitAt(v.d, k + 1) = 5
       /\ (Len(v.d) > k + 1 \/ v.d[k] % 2 = 1)

\* a decimal within the bounds reads back as the double; the bounds
\* themselves do when the significand is even
AboveLow(c, low, even) == IF even THEN ~DecimalLess(c, low) ELSE DecimalLess(low, c)

BelowHigh(c, high, even) == IF even THEN ~DecimalLess(high, c) ELSE DecimalLess(c, high)

\* the decimal of the fewest digits, k or more, that reads back as the
\* double of value v, and of these the nearest to v
RECURSIVE Shortest(_, _, _, _, _)
ShortestOf(v, low, high, even, k, down, up, downFits, upFits) ==
    IF downFits /\ upFits THEN (IF UpIsNearer(v, k) THEN up ELSE down)
    ELSE IF downFits THEN down
    ELSE IF upFits THEN up
    ELSE Shortest(v, low, high, even, k + 1)

ShortestAmong(v, low, high, even, k, down, up) ==
    ShortestOf(v, low, high, even, k, down, up, AboveLow(down, low, even),
               BelowHigh(up, high, even))

Shortest(v, low, high, even, k) ==
    IF k >= Len(v.d) THEN v
    ELSE ShortestAmong(v, low, high, even, k, CutDown(v, k), CutUp(v, k))

DigitText(d) == [i \in 1..Len(d) |-> DigitChars[d[i] + 1]]

NumberOfDecimal(neg, c) == FiniteNumber(neg, DigitText(c.d), c.p)

\* the double m * 2^q, m from 1 to 2^53 - 1, as a Number
DoubleOf(neg, m, q) ==
    IF q > MaxBinaryExponent THEN Infinite(neg)
    ELSE NumberOfDecimal(neg, Shortest(ValueOf(m, q), LowBound(m, q), HighBound(m, q),
                                       m[Len(m)] % 2 = 0, 1))

\* a significand of 2^53 is 2^52 with the next exponent
Significand(neg, m, q) ==
    IF m = <<>> THEN Zero(neg)
    ELSE IF m = Two53.d THEN DoubleOf(neg, Two52.d, q + 1)
    ELSE DoubleOf(neg, m, q)

Rounded(neg, w, q) ==
    Significand(neg, IF RoundsUp(w) THEN Succ(IntegerDigits(w)) ELSE IntegerDigits(w), q)

RoundedOf(neg, r) == Rounded(neg, r.w, r.q)

\* the double nearest to the decimal w
NearestDouble(neg, w) == RoundedOf(neg, ScaledFrom(w, NearExponent(w.p)))

DigitNumbers(sig) == [i \in 1..Len(sig) |-> DigitVal(sig[i])]

\* the Number of significant digits sig
Stripped(neg, sig, point) ==
    IF sig = <<>> THEN Zero(neg)
    ELSE IF point > OverflowPoint THEN Infinite(neg)
    ELSE IF point < UnderflowPoint THEN Zero(neg)
    ELSE IF Len(sig) <= ExactDigits /\ point >= MinExactPoint /\ point <= MaxExactPoint
    THEN FiniteNumber(neg, sig, point)
    ELSE NearestDouble(neg, Decimal(DigitNumbers(sig), point))

\* the Number nearest to 0.ds * 10^point of any digit string ds
Finite(neg, ds, point) ==
    Stripped(neg, DropTrailingZeros(SubSeq(ds, ZeroRun(ds, 1) + 1, Len(ds))),
             point - ZeroRun(ds, 1))

\* the digits of a literal of radix 16, 2 or 8
RadixOf(c) == IF c \in {"x", "X"} THEN 16 ELSE IF c \in {"b", "B"} THEN 2 ELSE 8

HasRadixPrefix(w) ==
    Len(w) >= 2 /\ w[1] = "0" /\ w[2] \in {"x", "X", "b", "B", "o", "O"}

IsRadixDigit(c, radix) == IsHexDigit(c) /\ HexVal(c) < radix

\* the decimal digits of the digits ds of a radix, after the digits acc
RECURSIVE RadixToDecimal(_, _, _)
RadixToDecimal(ds, radix, acc) ==
    IF ds = <<>> THEN acc
    ELSE RadixToDecimal(Tail(ds), radix, MulAdd(acc, radix, HexVal(ds[1])))

IntegerOfDigits(dec) == Finite(FALSE, dec, Len(dec))

RadixNumber(radix, ds) ==
    IF ds = <<>> \/ \E i \in 1..Len(ds) : ~IsRadixDigit(ds[i], radix) THEN NaNNumber
    ELSE IntegerOfDigits(RadixToDecimal(ds, radix, <<>>))

\* the value of the digits of an exponent
ExponentOfStripped(ds) == IF Len(ds) > 6 THEN MaxExponent ELSE DigitsToNat(ds)

ExponentValue(ds) == ExponentOfStripped(SubSeq(ds, ZeroRun(ds, 1) + 1, Len(ds)))

\* the digits of the exponent start at index start of r and are len long
ExponentDigits(r, neg, ds, il, eneg, start, len) ==
    IF len = 0 \/ start + len - 1 # Len(r) THEN NaNNumber
    ELSE IF eneg THEN Finite(neg, ds, il - ExponentValue(SubSeq(r, start, Len(r))))
    ELSE Finite(neg, ds, il + ExponentValue(SubSeq(r, start, Len(r))))

ExponentSigned(r, neg, ds, il, eneg, start) ==
    ExponentDigits(r, neg, ds, il, eneg, start, DigitRun(r, start))

\* the exponent part of the literal r from index pos on; ds are the digits
\* read so far, il of them before the point
ExponentPart(r, neg, ds, il, pos) ==
    IF pos > Len(r) THEN Finite(neg, ds, il)
    ELSE IF r[pos] \notin {"e", "E"} THEN NaNNumber
    ELSE IF pos < Len(r) /\ r[pos + 1] = "-" THEN ExponentSigned(r, neg, ds, il, TRUE, pos + 2)
    ELSE IF pos < Len(r) /\ r[pos + 1] = "+" THEN ExponentSigned(r, neg, ds, il, FALSE, pos + 2)
    ELSE ExponentSigned(r, neg, ds, il, FALSE, pos + 1)

\* il digits, a point and fl digits: one of the two runs may be empty
FractionPart(r, neg, il, fl) ==
    IF il + fl = 0 THEN NaNNumber
    ELSE ExponentPart(r, neg, SubSeq(r, 1, il) \o SubSeq(r, il + 2, il + 1 + fl), il,
                      il + fl + 2)

IntegerPart(r, neg, il) ==
    IF il < Len(r) /\ r[il + 1] = "." THEN FractionPart(r, neg, il, DigitRun(r, il + 2))
    ELSE IF il = 0 THEN NaNNumber
    ELSE ExponentPart(r, neg, SubSeq(r, 1, il), il, il + 1)

Str_Infinity == <<"I", "n", "f", "i", "n", "i", "t", "y">>

\* StrUnsignedDecimalLiteral under a sign
UnsignedNumber(r, neg) ==
    IF r = Str_Infinity THEN Infinite(neg) ELSE IntegerPart(r, neg, DigitRun(r, 1))

\* StringNumericLiteral without the white space around it
NumberOfTrimmed(w) ==
    IF w = <<>> THEN Zero(FALSE)
    ELSE IF HasRadixPrefix(w) THEN RadixNumber(RadixOf(w[2]), SubSeq(w, 3, Len(w)))
    ELSE IF w[1] = "-" THEN UnsignedNumber(Tail(w), TRUE)
    ELSE IF w[1] = "+" THEN UnsignedNumber(Tail(w), FALSE)
    ELSE UnsignedNumber(w, FALSE)

\* Number(s) of a string s
ToNumber(s) == NumberOfTrimmed(Trim(s))

\* Number::toString of the digits of a finite value other than zero, in
\* exponent notation
ExponentText(ds, e) ==
    <<ds[1]>> \o (IF Len(ds) > 1 THEN <<".">> \o Tail(ds) ELSE <<>>)
        \o <<"e", IF e < 0 THEN "-" ELSE "+">> \o NatToStr(IF e < 0 THEN -e ELSE e)

DigitsText(ds, n) ==
    IF Len(ds) <= n /\ n <= 21 THEN PadRight(ds, n)
    ELSE IF 0 < n /\ n <= 21 THEN SubSeq(ds, 1, n) \o <<".">> \o SubSeq(ds, n + 1, Len(ds))
    ELSE IF -6 < n /\ n <= 0 THEN <<"0", ".">> \o Zeros(-n) \o ds
    ELSE ExponentText(ds, n - 1)

Str_NaN == <<"N", "a", "N">>

\* String(n) of a Number
NumberToString(p) ==
    IF p.nan THEN Str_NaN
    ELSE IF p.inf THEN (IF p.neg THEN <<"-">> ELSE <<>>) \o Str_Infinity
    ELSE IF p.digits = <<>> THEN <<"0">>
    ELSE (IF p.neg THEN <<"-">> ELSE <<>>) \o DigitsText(p.digits, p.point)

\* a Number as a value, with String(n) as its text
NumberValue(p) == [kind |-> "num", s |-> NumberToString(p), t |-> NaNTime]

\* the digits a Date takes from an argument: a finite number below 10^9;
\* a larger argument gives a day outside the range of the time values
MaxDateArgDigits == 9

IsDateArg(p) == IsFiniteNumber(p) /\ p.point <= MaxDateArgDigits

\* the magnitude of ToIntegerOrInfinity(p)
TruncatedMagnitude(p) ==
    IF p.point <= 0 THEN 0
    ELSE DigitsToNat(SubSeq(PadRight(p.digits, p.point), 1, p.point))

\* ToIntegerOrInfinity(p)
ToInteger(p) == IF p.neg THEN -TruncatedMagnitude(p) ELSE TruncatedMagnitude(p)

\* the double 2^-54 is written 5.551115123125783e-17: m - 1 of a positive m
\* up to it is the double -1
RoundsToMinusOnePoint == -16

RoundsToMinusOneDigits ==
    <<"5", "5", "5", "1", "1", "1", "5", "1", "2", "3", "1", "2", "5", "7", "8", "3", "0">>

IsBelowOne(m) == ~m.neg /\ m.digits # <<>> /\ m.point <= 0

RoundsToMinusOne(m) ==
    m.point < RoundsToMinusOnePoint
        \/ (m.point = RoundsToMinusOnePoint
              /\ ~DigitsLess(RoundsToMinusOneDigits, PadRight(m.digits, Len(RoundsToMinusOneDigits))))

\* ToIntegerOrInfinity(m - 1)
MonthArg(m) ==
    IF IsBelowOne(m) /\ ~RoundsToMinusOne(m) THEN 0 ELSE ToInteger(m) - 1

\* LocalDate built as midnight UTC, new Date(Date.UTC(y, m, d))
LocalDate_UTC(y, m, d, tzo) ==
    MkTime(MakeDay(IF y >= 0 /\ y <= 99 THEN 1900 + y ELSE y, m, d), 0)

\* new Date(y, m, d) in local time: years 0..99 mean 1900..1999
LocalDate(y, m, d, tzo) ==
    FromLocal(MakeDay(IF y >= 0 /\ y <= 99 THEN 1900 + y ELSE y, m, d), 0, tzo)

\* `${y}-${m}-${d}` of getFullYear, getMonth + 1 and getDate
FormatLocalFields(c) ==
    NumToStr(c.y) \o <<"-">> \o PadStart2(NumToStr(c.m)) \o <<"-">> \o PadStart2(NumToStr(c.d))

\* date.setDate(dist) on a date of local fields c and local time of day ms,
\* followed by the local fields of the date
SetDateAndFormat(c, ms, dist, tzo) ==
    FormatLocalFields(
        CivilFromDays(LocalTime(FromLocal(MakeDay(c.y, c.m - 1, dist), ms, tzo), tzo).day))

\* SnapDist with dist = getDate() - dayOfWeek + 1: a Sunday goes forward
SnapDist_SundayForward(c, ms, dayOfWeek, tzo) ==
    SetDateAndFormat(c, ms, c.d - dayOfWeek + 1, tzo)

\* dist = getDate() - dayOfWeek + (dayOfWeek === 0 ? -6 : 1)
SnapDist(c, ms, dayOfWeek, tzo) ==
    SetDateAndFormat(c, ms, c.d - dayOfWeek + (IF dayOfWeek = 0 THEN -6 ELSE 1), tzo)

\* getDay() and getDate() of the local time loc
SnapLocal(loc, tzo) == SnapDist(CivilFromDays(loc.day), loc.ms, WeekDay(loc.day), tzo)

\* the part of snapToMonday after new Date(y, m - 1, d)
SnapDate(cleanStr, date, tzo) ==
    IF ~date.valid THEN cleanStr ELSE SnapLocal(LocalTime(date, tzo), tzo)

\* new Date(y, m, d) of integers: a year outside the years around the range
\* of the time values gives an Invalid Date
SnapIntegers(cleanStr, y, m, d, tzo) ==
    IF y + (m \div 12) < -MaxParsedYear \/ y + (m \div 12) > MaxParsedYear THEN cleanStr
    ELSE SnapDate(cleanStr, LocalDate(y, m, d, tzo), tzo)

\* const [y, m, d] = parts and new Date(y, m - 1, d): a NaN or an infinity
\* among the arguments gives an Invalid Date, a fraction is cut off
SnapNumbers(cleanStr, y, m, d, tzo) ==
    IF ~(IsDateArg(y) /\ IsDateArg(m) /\ IsDateArg(d)) THEN cleanStr
    ELSE SnapIntegers(cleanStr, ToInteger(y), MonthArg(m), ToInteger(d), tzo)

SnapParts(cleanStr, parts, tzo) ==
    IF Len(parts) < 3 THEN cleanStr
    ELSE SnapNumbers(cleanStr, ToNumber(parts[1]), ToNumber(parts[2]), ToNumber(parts[3]), tzo)

\* the part of snapToMonday after normalizeDate
SnapClean(cleanStr, tzo) == SnapParts(cleanStr, Split(cleanStr), tzo)

snapToMonday(in, tzo) ==
    IF IsFalsy(in) THEN <<>> ELSE SnapClean(normalizeDate(in, tzo), tzo)

(***************************************************************************)
(* Record ingestion: fetchAppData, safeStr, safeNum and dedupeById         *)
(* (storage.ts 264-374).  A raw record is a function from the names of its *)
(* properties to values; a value is null/undefined, a string or a number.  *)
(***************************************************************************)
\* !v for a value of a raw record
Falsy(v) == IsFalsy(v)

\* r[f]: undefined when the record has no property f
Get(r, f) == IF f \in DOMAIN r THEN r[f] ELSE NullInput

\* a || b
OrElse(a, b) == IF Falsy(a) THEN b ELSE a

\* r[camel] || r[pascal]
Probe(r, camel, pascal) == OrElse(Get(r, camel), Get(r, pascal))

\* r[camel] || r[pascal] || fallback
ProbeOr(r, camel, pascal, fallback) == OrElse(Probe(r, camel, pascal), StrInput(fallback))

\* s ? String(s).trim() : ''
safeStr(v) == IF Falsy(v) THEN StrInput(<<>>) ELSE StrInput(Trim(v.s))

\* isNaN(parsed) ? 0 : parsed
NumberOrZero(p) == IF p.nan THEN NumInput(0) ELSE NumberValue(p)

\* Number(n) of null is 0 and of undefined is NaN
safeNum(v) == IF v.kind = "null" THEN NumInput(0) ELSE NumberOrZero(ToNumber(v.s))

\* the last of the items whose idKey is k
RECURSIVE LastWithKey(_, _, _)
LastWithKey(items, idKey, k) ==
    IF items[Len(items)][idKey] = k THEN items[Len(items)]
    ELSE LastWithKey(SubSeq(items, 1, Len(items) - 1), idKey, k)

\* the items whose idKey is not k
RECURSIVE WithoutKey(_, _, _)
WithoutKey(items, idKey, k) ==
    IF items = <<>> THEN <<>>
    ELSE (IF Head(items)[idKey] = k THEN <<>> ELSE <<Head(items)>>)
             \o WithoutKey(Tail(items), idKey, k)

\* dedupeById listing each key at the position of its last occurrence
RECURSIVE dedupeById_ByLastPosition(_, _)
dedupeById_ByLastPosition(items, idKey) ==
    IF items = <<>> THEN <<>>
    ELSE dedupeById_ByLastPosition(
             WithoutKey(SubSeq(items, 1, Len(items) - 1), idKey, items[Len(items)][idKey]),
             idKey) \o <<items[Len(items)]>>

\* dedupeById keeping the first occurrence of each key
RECURSIVE dedupeById_KeepFirst(_, _)
dedupeById_KeepFirst(items, idKey) ==
    IF items = <<>> THEN <<>>
    ELSE <<Head(items)>>
             \o dedupeById_KeepFirst(WithoutKey(Tail(items), idKey, Head(items)[idKey]), idKey)

\* Array.from(map.values()) after map.set(item[idKey], item) for every item:
\* the keys in the order of their first occurrence, each with its last item
RECURSIVE dedupeById(_, _)
dedupeById(items, idKey) ==
    IF items = <<>> THEN <<>>
    ELSE <<LastWithKey(items, idKey, Head(items)[idKey])>>
             \o dedupeById(WithoutKey(Tail(items), idKey, Head(items)[idKey]), idKey)

TaskFields ==
    { "taskId", "userId", "taskDescription", "estimatedPomodoros", "actualPomodoros",
      "status", "weekOfDate", "scheduledDate" }

GoalFields ==
    { "goalId", "userId", "title", "definitionOfDone", "priority", "dependency",
      "status", "retroText", "weekOfDate" }

CheckoutFields ==
    { "checkoutId", "userId", "vibeScore", "winText", "blockerText", "tomorrowGoalText",
      "date", "timestamp" }

InteractionFields ==
    { "interactionId", "checkoutId", "commenterId", "commentText", "type", "timestamp" }

UserFields == { "userId", "name", "role", "avatar" }

\* the property f of a mapped task (lines 299-310)
TaskField(t, f, tzo) ==
    CASE f = "taskId" -> safeStr(Probe(t, "taskId", "TaskId"))
      [] f = "userId" -> safeStr(Probe(t, "userId", "UserId"))
      [] f = "taskDescription" ->
             ProbeOr(t, "taskDescription", "TaskDescription", <<"U", "n", "t", "i", "t", "l", "e", "d", " ", "T", "a", "s", "k">>)
      [] f = "estimatedPomodoros" ->
             safeNum(Probe(t, "estimatedPomodoros", "EstimatedPomodoros"))
      [] f = "actualPomodoros" -> safeNum(Probe(t, "actualPomodoros", "ActualPomodoros"))
      [] f = "status" -> safeStr(ProbeOr(t, "status", "Status", <<"T", "o", " ", "D", "o">>))
      [] f = "weekOfDate" -> StrInput(snapToMonday(Probe(t, "weekOfDate", "WeekOfDate"), tzo))
      [] f = "scheduledDate" ->
             StrInput(normalizeDate(Probe(t, "scheduledDate", "ScheduledDate"), tzo))
      [] OTHER -> t[f]

\* the property f of a mapped weekly goal (lines 313-325)
GoalField(g, f, tzo) ==
    CASE f = "goalId" -> safeStr(Probe(g, "goalId", "GoalId"))
      [] f = "userId" -> safeStr(Probe(g, "userId", "UserId"))
      [] f = "title" -> ProbeOr(g, "title", "Title", <<"U", "n", "t", "i", "t", "l", "e", "d", " ", "G", "o", "a", "l">>)
      [] f = "definitionOfDone" -> ProbeOr(g, "definitionOfDone", "DefinitionOfDone", <<>>)
      [] f = "priority" -> ProbeOr(g, "priority", "Priority", <<"M", "e", "d", "i", "u", "m">>)
      [] f = "dependency" -> ProbeOr(g, "dependency", "Dependency", <<>>)
      [] f = "status" -> safeStr(ProbeOr(g, "status", "Status", <<"N", "o", "t", " ", "S", "t", "a", "r", "t", "e", "d">>))
      [] f = "retroText" -> ProbeOr(g, "retroText", "RetroText", <<>>)
      [] f = "weekOfDate" -> StrInput(snapToMonday(Probe(g, "weekOfDate", "WeekOfDate"), tzo))
      [] OTHER -> g[f]

\* the property f of a mapped checkout (lines 328-340)
CheckoutField(c, f, tzo) ==
    CASE f = "checkoutId" -> safeStr(Probe(c, "checkoutId", "CheckoutId"))
      [] f = "userId" -> safeStr(Probe(c, "userId", "UserId"))
      [] f = "vibeScore" -> safeNum(Probe(c, "vibeScore", "VibeScore"))
      [] f = "winText" -> ProbeOr(c, "winText", "WinText", <<>>)
      [] f = "blockerText" -> ProbeOr(c, "blockerText", "BlockerText", <<>>)
      [] f = "tomorrowGoalText" -> ProbeOr(c, "tomorrowGoalText", "TomorrowGoalText", <<>>)
      [] f = "date" -> StrInput(normalizeDate(Probe(c, "date", "Date"), tzo))
      [] f = "timestamp" -> safeNum(Probe(c, "timestamp", "Timestamp"))
      [] OTHER -> c[f]

\* the property f of a mapped interaction (lines 343-351)
InteractionField(i, f) ==
    CASE f = "interactionId" -> safeStr(Probe(i, "interactionId", "InteractionId"))
      [] f = "checkoutId" -> safeStr(Probe(i, "checkoutId", "CheckoutId"))
      [] f = "commenterId" -> safeStr(Probe(i, "commenterId", "CommenterId"))
      [] f = "commentText" -> Probe(i, "commentText", "CommentText")
      [] f = "type" -> Probe(i, "type", "Type")
      [] f = "timestamp" -> safeNum(Probe(i, "timestamp", "Timestamp"))
      [] OTHER -> i[f]

\* the property f of a mapped user (lines 354-359)
UserField(u, f) ==
    CASE f = "userId" -> safeStr(Probe(u, "userId", "UserId"))
      [] f = "name" -> Probe(u, "name", "Name")
      [] f = "role" -> Probe(u, "role", "Role")
      [] f = "avatar" -> Probe(u, "avatar", "Avatar")

\* { ...t, taskId: ..., ... }
MapTask(t, tzo) == [f \in DOMAIN t \cup TaskFields |-> TaskField(t, f, tzo)]

MapGoal(g, tzo) == [f \in DOMAIN g \cup GoalFields |-> GoalField(g, f, tzo)]

MapCheckout(c, tzo) == [f \in DOMAIN c \cup CheckoutFields |-> CheckoutField(c, f, tzo)]

MapInteraction(i) == [f \in DOMAIN i \cup InteractionFields |-> InteractionField(i, f)]

\* no spread: a user has the four mapped properties only
MapUser(u) == [f \in UserFields |-> UserField(u, f)]

\* the mock users of constants.ts
INITIAL_USERS ==
    << [userId |-> StrInput(<<"u", "1">>), name |-> StrInput(<<"A", "l", "i", "c", "e", " ", "(", "M", "a", "n", "a", "g", "e", "r", ")">>),
        role |-> StrInput(<<"M", "a", "n", "a", "g", "e", "r">>), avatar |-> StrInput(<<"h", "t", "t", "p", "s", ":", "/", "/", "p", "i", "c", "s", "u", "m", ".", "p", "h", "o", "t", "o", "s", "/", "s", "e", "e", "d", "/", "a", "l", "i", "c", "e", "/", "4", "0", "/", "4", "0">>)],
       [userId |-> StrInput(<<"u", "2">>), name |-> StrInput(<<"B", "o", "b", " ", "(", "J", "u", "n", "i", "o", "r", ")">>),
        role |-> StrInput(<<"E", "m", "p", "l", "o", "y", "e", "e">>), avatar |-> StrInput(<<"h", "t", "t", "p", "s", ":", "/", "/", "p", "i", "c", "s", "u", "m", ".", "p", "h", "o", "t", "o", "s", "/", "s", "e", "e", "d", "/", "b", "o", "b", "/", "4", "0", "/", "4", "0">>)],
       [userId |-> StrInput(<<"u", "3">>), name |-> StrInput(<<"C", "h", "a", "r", "l", "i", "e", " ", "(", "J", "u", "n", "i", "o", "r", ")">>),
        role |-> StrInput(<<"E", "m", "p", "l", "o", "y", "e", "e">>), avatar |-> StrInput(<<"h", "t", "t", "p", "s", ":", "/", "/", "p", "i", "c", "s", "u", "m", ".", "p", "h", "o", "t", "o", "s", "/", "s", "e", "e", "d", "/", "c", "h", "a", "r", "l", "i", "e", "/", "4", "0", "/", "4", "0">>)] >>

\* rawUsers.length > 0 ? dedupeById(rawUsers, 'userId') : INITIAL_USERS
\* UsersOrInitial without the fallback to INITIAL_USERS
UsersOrInitial_NoFallback(rawUsers) == dedupeById(rawUsers, "userId")

UsersOrInitial(rawUsers) ==
    IF Len(rawUsers) > 0 THEN dedupeById(rawUsers, "userId") ELSE INITIAL_USERS

\* the value fetchAppData resolves to when the response is the batch b
fetchAppData(b, tzo) ==
    [users |-> UsersOrInitial([i \in 1..Len(b.users) |-> MapUser(b.users[i])]),
     checkouts |->
         dedupeById([i \in 1..Len(b.checkouts) |-> MapCheckout(b.checkouts[i], tzo)],
                    "checkoutId"),
     tasks |-> dedupeById([i \in 1..Len(b.tasks) |-> MapTask(b.tasks[i], tzo)], "taskId"),
     weeklyGoals |->
         dedupeById([i \in 1..Len(b.weeklyGoals) |-> MapGoal(b.weeklyGoals[i], tzo)],
                    "goalId"),
     interactions |->
         dedupeById([i \in 1..Len(b.interactions) |-> MapInteraction(b.interactions[i])],
                    "interactionId")]

\* the value fetchAppData resolves to from its catch block (line 372)
FailureData ==
    [users |-> INITIAL_USERS, checkouts |-> <<>>, tasks |-> <<>>, weeklyGoals |-> <<>>,
     interactions |-> <<>>]

\* a response without collections, and the state before fetchAppData resolves
NoBatch ==
    [users |-> <<>>, checkouts |-> <<>>, tasks |-> <<>>, weeklyGoals |-> <<>>,
     interactions |-> <<>>]

NoData ==
    [users |-> <<>>, checkouts |-> <<>>, tasks |-> <<>>, weeklyGoals |-> <<>>,
     interactions |-> <<>>]

(***************************************************************************)
(* The inputs of the model                                                 *)
(***************************************************************************)
\* days of each window of consecutive calendar days, after its first day
SpanDays == 8

\* first days of the windows: leap day and the pivot examples, end of June,
\* the turn of 2018/2019 and 2024/2025, end of March 2024, and early years
WindowStarts ==
    { MakeDay(2024, 1, 26), MakeDay(2024, 5, 9), MakeDay(2018, 11, 28),
      MakeDay(2024, 11, 27), MakeDay(2024, 2, 25), MakeDay(1, 0, 1),
      MakeDay(99, 0, 1), MakeDay(999, 11, 26), MakeDay(1900, 0, 1) }

WindowDays == UNION { w..(w + SpanDays) : w \in WindowStarts }

\* days whose instants are used as Date objects and time-bearing strings
InstantDays ==
    { MakeDay(2024, 2, 3), MakeDay(2024, 2, 4), MakeDay(2024, 2, 5),
      MakeDay(2024, 5, 10), MakeDay(2024, 11, 31), MakeDay(2024, 1, 29) }

\* times of day, in minutes: every whole hour, 22:15, 23:30 and 23:59
DayMinutes == { h * 60 : h \in 0..23 } \cup { 1335, 1410, 1439 }

Instants == { MkTime(d, m * msPerMinute) : d \in InstantDays, m \in DayMinutes }

\* runtime timezones, in hours ahead of UTC
TZOffsets == { -12, -11, -5, 0, 1, 12, 13, 14 }

PadStart4(s) == SubSeq(ZeroPad, 1, 4 - Len(s)) \o s

PadStart3(s) == SubSeq(ZeroPad, 1, 3 - Len(s)) \o s

\* the canonical string YYYY-MM-DD of three numbers
YMDStr(y, m, d) ==
    PadStart4(NatToStr(y)) \o <<"-">> \o PadStart2(NatToStr(m)) \o <<"-">> \o PadStart2(NatToStr(d))

CanonOfCivil(c) == YMDStr(c.y, c.m, c.d)

\* the canonical string of a day number
CanonOfDay(z) == CanonOfCivil(CivilFromDays(z))

\* HH:MM:SS of an instant
ClockStr(t) ==
    PadStart2(NatToStr(t.ms \div msPerHour)) \o <<":">>
        \o PadStart2(NatToStr((t.ms % msPerHour) \div msPerMinute)) \o <<":">>
        \o PadStart2(NatToStr((t.ms % msPerMinute) \div msPerSecond))

\* the ISO string of an instant without zone designator
IsoLocalStr(t) == CanonOfDay(t.day) \o <<"T">> \o ClockStr(t)

\* Date.prototype.toISOString of an instant without and with milliseconds
IsoZStr(t) == IsoLocalStr(t) \o <<"Z">>

IsoMsZStr(t) ==
    IsoLocalStr(t) \o <<".">> \o PadStart3(NatToStr(t.ms % msPerSecond)) \o <<"Z">>

\* the spreadsheet's "Date(<milliseconds>)" marker of an instant after 1970
EpochStr(t) ==
    DatePrefix \o NatToStr(t.day * 86400 + (t.ms \div msPerSecond))
        \o PadStart3(NatToStr(t.ms % msPerSecond)) \o <<")">>

CanonicalStrings == { CanonOfDay(z) : z \in WindowDays }

\* strict YYYY-MM-DD strings that name no calendar day
UnrealStrings ==
    { YMDStr(2024, 13, 45), YMDStr(2024, 2, 30), YMDStr(2023, 2, 29),
      YMDStr(2024, 0, 10), YMDStr(2024, 4, 31), YMDStr(2024, 12, 0) }

TimeStrings ==
    UNION { { IsoZStr(t), IsoLocalStr(t), IsoMsZStr(t), EpochStr(t) } : t \in Instants }

\* the numbers of the first two groups of a D/M/Y string
GroupNumbers == { 0, 1, 2, 3, 12, 13, 30, 31, 32, 45 }

\* D/M/Y strings with the numbers of their two leading groups and their year
DmyTable ==
    { [s  |-> (IF c[2] THEN PadStart2(NatToStr(c[1])) ELSE NatToStr(c[1])) \o <<c[4]>>
                 \o PadStart2(NatToStr(c[3])) \o <<c[4]>> \o c[5],
       p1 |-> c[1], p2 |-> c[3], y |-> c[5]] :
        c \in GroupNumbers \X BOOLEAN \X GroupNumbers \X { "-", "/" }
                \X { <<"2", "0", "2", "4">>, <<"1", "9", "9", "9">> } }

DmyStrings == { c.s : c \in DmyTable }

OtherStrings ==
    { <<"n", "o", "t", " ", "a", " ", "d", "a", "t", "e">>,
      <<"n", "o", "t", " ", "a", " ", "d", "a", "t", "e", " ", "a", "t", " ", "a", "l", "l">>,
      <<"2", "0", "2", "3", "-", "1", "0", "-", "2", "5", " ", "j", "u", "n", "k">>,
      <<"D", "a", "t", "e", "(", "a", "b", "c", ")">>,
      <<"D", "a", "t", "e", "(">>,
      <<" ", " ", " ">>,
      <<" ", "2", "0", "2", "4", "-", "0", "3", "-", "0", "4", " ">>,
      <<"2", "0", "2", "4", "-", "3", "-", "4">>,
      <<"2", "0", "2", "4", "/", "0", "3", "/", "0", "4">>,
      <<"h", "e", "l", "l", "o">>,
      <<>> }

\* strings wrapped in white space other than blanks
WrappedStrings ==
    { <<"\t", "2", "0", "2", "4", "-", "0", "3", "-", "0", "4">>,
      <<"\r", "\n", "2", "0", "2", "4", "-", "0", "3", "-", "0", "4", "\r", "\n">>,
      <<"U+00A0", "2", "0", "2", "4", "-", "0", "3", "-", "0", "4", "U+FEFF">>,
      <<" ", "\t", " ", "x", " ", "\t", " ">>,
      <<"\t", "\n">> }

\* further ISO date-time strings: a time without seconds, lower-case t and
\* z, zone offsets with and without a colon, a fraction before an offset,
\* the hour 24, and a signed year of six digits
IsoStrings ==
    { <<"2", "0", "2", "4", "-", "0", "3", "-", "0", "4", "T", "1", "0", ":", "0", "0">>,
      <<"2", "0", "2", "4", "-", "0", "3", "-", "0", "4", "T", "2", "3", ":", "3", "0", "Z">>,
      <<"2", "0", "2", "4", "-", "0", "3", "-", "0", "4", "t", "2", "3", ":", "3", "0", ":",
        "0", "0", "z">>,
      <<"2", "0", "2", "4", "-", "0", "3", "-", "0", "4", "T", "2", "0", ":", "0", "0", ":",
        "0", "0", "+", "0", "5", ":", "3", "0">>,
      <<"2", "0", "2", "4", "-", "0", "3", "-", "0", "4", "T", "2", "3", ":", "3", "0", ":",
        "0", "0", "-", "0", "8", "0", "0">>,
      <<"2", "0", "2", "4", "-", "0", "3", "-", "0", "4", "T", "1", "0", ":", "0", "0", ":",
        "0", "0", ".", "1", "2", "3", "+", "0", "1", ":", "0", "0">>,
      <<"2", "0", "2", "4", "-", "0", "3", "-", "0", "4", "T", "2", "4", ":", "0", "0", ":",
        "0", "0">>,
      <<"+", "0", "0", "2", "0", "2", "4", "-", "0", "3", "-", "0", "4", "T", "1", "0", ":",
        "0", "0", ":", "0", "0", "Z">> }

\* further shapes the date parser meets: a time past 24:00 and an hour
\* without minutes (both invalid), a blank before the time, a year or a year
\* and a month alone, one or two numbers, numbers between other separators,
\* a time with PM, a zone name, the text of Date.prototype.toString, words
\* after a date that do and do not start like a month name, and epoch
\* markers with a hexadecimal payload or white space in the payload
ParsedStrings ==
    { <<"2", "0", "2", "4", "-", "0", "3", "-", "0", "4", "T", "2", "4", ":", "0", "0", ":",
        "0", "1">>,
      <<"2", "0", "2", "4", "-", "0", "3", "-", "0", "4", "T", "1", "0">>,
      <<"2", "0", "2", "4", "-", "0", "3", "-", "0", "4", " ", "1", "0", ":", "0", "0", ":",
        "0", "0">>,
      <<"2", "0", "2", "4">>,
      <<"2", "0", "2", "4", "-", "0", "3">>,
      <<"4", "5", "0", "0", "0">>,
      <<"1", "2">>,
      <<"0">>,
      <<"1", "/", "2">>,
      <<"1", " ", "2", " ", "2", "0", "2", "4">>,
      <<"1", ".", "2", ".", "2", "0", "2", "4">>,
      <<"1", ",", " ", "2", ",", " ", "2", "0", "2", "4">>,
      <<"1", "/", "2", "/", "2", "0", "2", "4", " ", "1", "0", ":", "0", "0">>,
      <<"3", "/", "4", "/", "2", "0", "2", "4", " ", "2", ":", "3", "0", " ", "P", "M">>,
      <<"1", "/", "2", "/", "2", "0", "2", "4", " ", "G", "M", "T">>,
      <<"1", "/", "2", "/", "2", "0", "2", "4", " ", "2", "3", ":", "3", "0", " ", "P", "S",
        "T">>,
      <<"O", "c", "t", " ", "2", "5", ",", " ", "2", "0", "2", "4">>,
      <<"O", "c", "t", "o", "b", "e", "r", " ", "2", "5", ",", " ", "2", "0", "2", "4">>,
      <<"M", "o", "n", " ", "M", "a", "r", " ", "0", "4", " ", "2", "0", "2", "4", " ",
        "1", "0", ":", "0", "0", ":", "0", "0", " ", "G", "M", "T", "+", "0", "1", "0", "0",
        " ", "(", "C", "E", "T", ")">>,
      <<"f", "o", "o", " ", "2", "0", "2", "4">>,
      <<"3", "1", "/", "1", "2", "/", "1", "9", "9", "9", " ", "j", "u", "n", "k">>,
      <<"2", "0", "2", "3", "-", "1", "0", "-", "2", "5", " ", "x", "y", "z">>,
      <<"D", "a", "t", "e", "(", "0", "x", "1", "0", "0", "0", "0", "0", "0", "0", "0", "0",
        "0", ")">>,
      <<"D", "a", "t", "e", "(", "-", "0", "x", "1", "F", ")">>,
      <<"D", "a", "t", "e", "(", "0", "x", ")">>,
      <<"D", "a", "t", "e", "(", "\t", "4", "2", ")">>,
      <<"D", "a", "t", "e", "(", " ", "\r", "\n", " ", "4", "2", ")">> }

\* strings that meet the scanner of the date parser: the character U+0000
\* ends the input, a control character is an unknown token, a line or
\* paragraph separator is part of a word, and the seconds of a zone offset
\* wrap at 2^32
ScannerStrings ==
    { <<"2", "0", "2", "4", "-", "0", "3", "-", "0", "4", "U+0000", "j", "u", "n", "k">>,
      <<"M", "a", "r", "U+0000", "4", " ", "2", "0", "2", "4">>,
      <<"2", "0", "2", "4", "-", "0", "3", "-", "1", "0", "T", "2", "3", ":", "3", "0",
        "U+0000", "Z">>,
      <<"1", "/", "2", "/", "2", "0", "2", "4", "U+0001">>,
      <<"1", "/", "2", "/", "2", "0", "2", "4", "U+0001", "1", "0", ":", "0", "0">>,
      <<"1", "/", "2", "/", "2", "0", "2", "4", "U+2028", "x">>,
      <<"1", "U+2028", "2", "U+2028", "2", "0", "2", "4">>,
      <<"1", "/", "2", "/", "2", "0", "2", "4", "U+2029", "1", "0", ":", "0", "0">>,
      <<"1", "/", "2", "/", "2", "0", "2", "4", " ", "1", "0", ":", "0", "0", " ", "+",
        "1", "1", "9", "3", "0", "4", "7", ":", "0", "0">>,
      <<"1", "/", "2", "/", "2", "0", "2", "4", " ", "1", "0", ":", "0", "0", " ", "+",
        "5", "9", "6", "5", "2", "4", ":", "0", "0">>,
      <<"1", "/", "2", "/", "2", "0", "2", "4", " ", "1", "0", ":", "0", "0", " ", "+",
        "0", "1", ":", "7", "1", "5", "8", "2", "7", "8", "9">> }

\* strings whose dash-separated components are numeric literals other than
\* plain digits: an exponent, a fraction, a radix prefix, a sign, and a year
\* beyond the range of the time values
LiteralStrings ==
    { <<"1", "e", "3", "-", "1", "-", "1">>,
      <<"1", ".", "5", "-", "1", "-", "1">>,
      <<"0", "x", "1", "0", "-", "1", "-", "1">>,
      <<"+", "5", "-", "1", "-", "1">>,
      <<"2", "0", "2", "4", "-", "1", ".", "5", "-", "1">>,
      <<"2", "0", "2", "4", "-", "0", ".", "5", "-", "1">>,
      <<"1", "e", "9", "-", "1", "-", "1">>,
      <<"0", "b", "1", "1", "-", "0", "o", "1", "7", "-", ".", "5">> }

\* numbers as inputs: String(n) is what is parsed; 0 and NaN are falsy
NumberInputs ==
    { NumInput(0), NumInput(45000), NumInput(2024), NumberValue(NaNNumber),
      NumberValue(Finite(FALSE, <<"2", "5">>, 1)), NumberValue(Finite(TRUE, <<"3">>, 1)) }

InvalidDate == DateInput(NaNTime)

\* Sundays that are the last day of their month: in 0099, 0999, 2023, 2024,
\* and the leap day of 2032
MonthEndSundays ==
    { MakeDay(99, 4, 31), MakeDay(999, 5, 30), MakeDay(2023, 3, 30),
      MakeDay(2023, 11, 31), MakeDay(2024, 5, 30), MakeDay(2032, 1, 29) }

MonthEndStrings == { CanonOfDay(z) : z \in MonthEndSundays }

\* strings whose normalized form normalizes to something else: text with a
\* space as its 10th character, and instants of the year 999
UnstableStrings ==
    { <<"s", "o", "m", "e", " ", "t", "e", "x", "t", " ", "h", "e", "r", "e">>,
      IsoZStr(MkTime(MakeDay(999, 11, 29), 0)), IsoZStr(MkTime(MakeDay(999, 11, 30), 0)) }

\* the month name i in lower case, with a capital, or in capitals
MonthAbbrev(i, style) ==
    IF style = "lower" THEN MonthNames[i]
    ELSE IF style = "Title"
    THEN <<UpperChars[CHOOSE k \in 1..26 : LowerChars[k] = MonthNames[i][1]]>>
             \o Tail(MonthNames[i])
    ELSE [k \in 1..3 |-> UpperChars[CHOOSE j \in 1..26 : LowerChars[j] = MonthNames[i][k]]]

\* strings of a day, a month abbreviation and a four-digit year
NamedTable ==
    { [s |-> NatToStr(c[1]) \o <<c[4]>> \o MonthAbbrev(c[2], c[3]) \o <<c[4]>> \o NatToStr(c[5]),
       d |-> c[1], m |-> c[2], y |-> c[5]] :
        c \in { 1, 25, 28, 31 } \X { 2, 10, 12 } \X { "lower", "Title", "UPPER" }
                \X { "-", "/", " " } \X { 1999, 2024 } }

\* the same with a word that names no month
UnnamedStrings ==
    { <<"2", "5", "-", "F", "o", "o", "-", "2", "0", "2", "4">>,
      <<"2", "5", " ", "O", "k", "t", " ", "2", "0", "2", "4">> }

NamedStrings == { c.s : c \in NamedTable } \cup UnnamedStrings

Inputs ==
    { NullInput, InvalidDate } \cup { DateInput(t) : t \in Instants } \cup NumberInputs
        \cup { StrInput(s) : s \in CanonicalStrings \cup UnrealStrings \cup TimeStrings
                                    \cup DmyStrings \cup OtherStrings
                                    \cup MonthEndStrings \cup UnstableStrings
                                    \cup NamedStrings \cup WrappedStrings
                                    \cup IsoStrings \cup ParsedStrings
                                    \cup ScannerStrings \cup LiteralStrings }

(***************************************************************************)
(* The responses of the store: batches with one collection of raw records  *)
(***************************************************************************)
\* records of a collection in the batches that vary the identifiers
MaxRecords == 3

\* runtime timezones of the ingestion runs
FetchZones == { -5, 0, 13 }

Kinds == { "users", "checkouts", "tasks", "weeklyGoals", "interactions" }

\* the identifier of the records of a collection, and its PascalCase spelling
IdKey(k) ==
    CASE k = "users" -> "userId" [] k = "checkouts" -> "checkoutId" [] k = "tasks" -> "taskId"
      [] k = "weeklyGoals" -> "goalId" [] k = "interactions" -> "interactionId"

PascalIdKey(k) ==
    CASE k = "users" -> "UserId" [] k = "checkouts" -> "CheckoutId" [] k = "tasks" -> "TaskId"
      [] k = "weeklyGoals" -> "GoalId" [] k = "interactions" -> "InteractionId"

\* a free-text property of the records of a collection, and its value in
\* the i-th raw record: it tells the raw records of a batch apart
TagKey(k) ==
    CASE k = "users" -> "name" [] k = "checkouts" -> "winText"
      [] k = "tasks" -> "taskDescription" [] k = "weeklyGoals" -> "title"
      [] k = "interactions" -> "commentText"

RowTag(i) == StrInput(<<"r", DigitChars[i + 1]>>)

EmptyRecord == [f \in {} |-> NullInput]

IdA == StrInput(<<"a">>)

IdB == StrInput(<<"b">>)

IdPaddedA == StrInput(<<" ", "a", " ">>)

\* identifier properties: none, a, b, a under the PascalCase name, a with
\* spaces around it, and a with b under the PascalCase name
IdParts(k) ==
    { EmptyRecord, IdKey(k) :> IdA, IdKey(k) :> IdB, PascalIdKey(k) :> IdA,
      IdKey(k) :> IdPaddedA, (IdKey(k) :> IdA) @@ (PascalIdKey(k) :> IdB) }

\* a batch whose collection k is rows and whose other collections are empty
BatchOf(k, rows) == [NoBatch EXCEPT ![k] = rows]

IdBatches ==
    UNION { UNION { { BatchOf(k, [i \in 1..n |-> ids[i] @@ (TagKey(k) :> RowTag(i))]) :
                        ids \in [1..n -> IdParts(k)] } : n \in 0..MaxRecords } : k \in Kinds }

Str_2024_06_10 == <<"2", "0", "2", "4", "-", "0", "6", "-", "1", "0">>

Iso_0610_2215Z == <<"2", "0", "2", "4", "-", "0", "6", "-", "1", "0", "T", "2", "2", ":", "1", "5", ":", "0", "0", ".", "0", "0", "0", "Z">>

Str_2024_03_06 == <<"2", "0", "2", "4", "-", "0", "3", "-", "0", "6">>

Str_2024_03_13 == <<"2", "0", "2", "4", "-", "0", "3", "-", "1", "3">>

Str_1000_01_01 == <<"1", "0", "0", "0", "-", "0", "1", "-", "0", "1">>

Str_NotADateAtAll == <<"n", "o", "t", " ", "a", " ", "d", "a", "t", "e", " ", "a", "t", " ", "a", "l", "l">>

Str_02_03_2024 == <<"0", "2", "/", "0", "3", "/", "2", "0", "2", "4">>

\* values of a date-bearing property
DateValues ==
    { StrInput(Str_2024_03_06), StrInput(Iso_0610_2215Z), StrInput(Str_2024_06_10),
      StrInput(Str_NotADateAtAll), StrInput(Str_02_03_2024), StrInput(Str_1000_01_01),
      StrInput(<<"1", "e", "3", "-", "1", "-", "1">>),
      StrInput(<<"1", ".", "5", "-", "1", "-", "1">>) }

\* a date-bearing property: absent, under its camelCase name c, under its
\* PascalCase name p, under both names, and under p with c empty
DateParts(c, p) ==
    { EmptyRecord }
        \cup { c :> v : v \in DateValues } \cup { p :> v : v \in DateValues }
        \cup { (c :> v) @@ (p :> StrInput(Str_2024_03_13)) : v \in DateValues }
        \cup { (c :> StrInput(<<>>)) @@ (p :> v) : v \in DateValues }

\* the date-bearing properties of the records of a collection (types.ts),
\* each with its PascalCase spelling
DateKeys(k) ==
    CASE k = "checkouts" -> { <<"date", "Date">> }
      [] k = "tasks" -> { <<"weekOfDate", "WeekOfDate">>, <<"scheduledDate", "ScheduledDate">> }
      [] k = "weeklyGoals" ->
             { <<"weekOfDate", "WeekOfDate">>, <<"startDate", "StartDate">>,
               <<"endDate", "EndDate">> }
      [] OTHER -> {}

\* batches with one record, identifier a, that vary one date-bearing property
DateBatches ==
    UNION { UNION { { BatchOf(k, << (IdKey(k) :> IdA) @@ part @@ (TagKey(k) :> RowTag(1)) >>) :
                        part \in DateParts(f[1], f[2]) } : f \in DateKeys(k) } : k \in Kinds }

\* values of a numeric property: numbers, and texts that Number() reads as
\* a number or as NaN
NumericValues ==
    { NumInput(0), NumInput(3), NumberValue(Finite(FALSE, <<"2", "5">>, 1)),
      NumberValue(Finite(TRUE, <<"3">>, 1)),
      StrInput(<<"4">>), StrInput(<<" ", "4", " ">>), StrInput(<<"1", ".", "5">>),
      StrInput(<<"1", "e", "3">>), StrInput(<<"-", "3">>), StrInput(<<"0", "x", "1", "0">>),
      StrInput(<<"+", "5">>), StrInput(<<".", "5">>), StrInput(<<"5", ".">>),
      StrInput(<<"I", "n", "f", "i", "n", "i", "t", "y">>),
      StrInput(<<"9", "9", "9", "9", "9", "9", "9", "9", "9", "9", "9">>),
      StrInput(<<"9", "0", "0", "7", "1", "9", "9", "2", "5", "4", "7", "4", "0", "9", "9", "3">>),
      StrInput(<<"f", "o", "u", "r">>), StrInput(<<" ">>) }

\* a numeric property: absent, under its camelCase name c, under its
\* PascalCase name p, and under p with c zero
NumericParts(c, p) ==
    { EmptyRecord }
        \cup { c :> v : v \in NumericValues } \cup { p :> v : v \in NumericValues }
        \cup { (c :> NumInput(0)) @@ (p :> v) : v \in NumericValues }

\* the numeric properties of the records of a collection (types.ts), each
\* with its PascalCase spelling
NumericKeys(k) ==
    CASE k = "checkouts" -> { <<"vibeScore", "VibeScore">>, <<"timestamp", "Timestamp">> }
      [] k = "tasks" ->
             { <<"estimatedPomodoros", "EstimatedPomodoros">>,
               <<"actualPomodoros", "ActualPomodoros">> }
      [] k = "interactions" -> { <<"timestamp", "Timestamp">> }
      [] OTHER -> {}

\* batches with one record, identifier a, that vary one numeric property
NumericBatches ==
    UNION { UNION { { BatchOf(k, << (IdKey(k) :> IdA) @@ part @@ (TagKey(k) :> RowTag(1)) >>) :
                        part \in NumericParts(f[1], f[2]) } : f \in NumericKeys(k) } : k \in Kinds }

RawBatches == IdBatches \cup DateBatches \cup NumericBatches

(***************************************************************************)
(* The state machine: one input, the runtime's timezone, and the           *)
(* functions applied to the input and then to their own result.            *)
(***************************************************************************)
Init ==
    /\ input \in Inputs
    /\ tz \in TZOffsets
    /\ op = "idle"
    /\ out = <<>>
    /\ prev = <<>>
    /\ raw = NoBatch
    /\ data = NoData
    /\ AppUnmounted

\* out = normalizeDate(input)
NormalizeDate ==
    /\ op = "idle"
    /\ out' = normalizeDate(input, tz)
    /\ op' = "normalizeDate"
    /\ UNCHANGED <<input, tz, prev, raw, data, appVars>>

\* out = snapToMonday(input)
SnapToMonday ==
    /\ op = "idle"
    /\ out' = snapToMonday(input, tz)
    /\ op' = "snapToMonday"
    /\ UNCHANGED <<input, tz, prev, raw, data, appVars>>

\* out = normalizeDate(normalizeDate(input)), prev = normalizeDate(input)
NormalizeAgain ==
    /\ op = "normalizeDate"
    /\ prev' = out
    /\ out' = normalizeDate(StrInput(out), tz)
    /\ op' = "normalizeDate2"
    /\ UNCHANGED <<input, tz, raw, data, appVars>>

\* out = snapToMonday(snapToMonday(input)), prev = snapToMonday(input)
SnapAgain ==
    /\ op = "snapToMonday"
    /\ prev' = out
    /\ out' = snapToMonday(StrInput(out), tz)
    /\ op' = "snapToMonday2"
    /\ UNCHANGED <<input, tz, raw, data, appVars>>

\* out = snapToMonday(normalizeDate(input)), prev = normalizeDate(input)
SnapNormalized ==
    /\ op = "normalizeDate"
    /\ prev' = out
    /\ out' = snapToMonday(StrInput(out), tz)
    /\ op' = "snapOfNormalized"
    /\ UNCHANGED <<input, tz, raw, data, appVars>>

Next == NormalizeDate \/ SnapToMonday \/ NormalizeAgain \/ SnapAgain \/ SnapNormalized

Spec == Init /\ [][Next]_vars

(***************************************************************************)
(* The ingestion run: one response of the store, and what fetchAppData     *)
(* resolves to.                                                            *)
(***************************************************************************)
FetchInit ==
    /\ input = NullInput
    /\ tz \in FetchZones
    /\ op = "idle"
    /\ out = <<>>
    /\ prev = <<>>
    /\ raw \in RawBatches
    /\ data = NoData
    /\ AppUnmounted

\* the response arrives and is mapped and deduplicated (lines 293-367)
FetchResolves ==
    /\ op = "idle"
    /\ data' = fetchAppData(raw, tz)
    /\ op' = "fetched"
    /\ UNCHANGED <<input, tz, out, prev, raw, appVars>>

\* the statements of the try block that can throw: fetch (line 293), the
\* status check (line 294) and response.json() (line 296)
FailureCauses == { "fetchThrew", "statusNotOk", "jsonThrew" }

\* a catch block that throws the error again: the promise is rejected
Caught_Rethrown(error) == [rejected |-> error]

\* the catch block (lines 369-373): the error is logged and the promise
\* resolves to FailureData
Caught(error) == FailureData

\* a statement of the try block throws
FetchFails ==
    /\ op = "idle"
    /\ \E error \in FailureCauses :
           /\ data' = Caught(error)
           /\ op' = error
    /\ UNCHANGED <<input, tz, out, prev, raw, appVars>>

FetchNext == FetchResolves \/ FetchFails

FetchSpec == FetchInit /\ [][FetchNext]_vars

(***************************************************************************)
(* The App component (src/App.tsx): its React state, the session key in    *)
(* localStorage, the store behind API_URL, and the asynchronous calls in   *)
(* flight.  Every handler and every continuation after an await is one     *)
(* step.  currentUser, the session key and a saved session are userIds     *)
(* (strings); a user is known by its userId.  Date.now() reads now         *)
(* milliseconds after the page load; the identifiers of checkouts, tasks,  *)
(* goals and interactions carry the counter now alone.  The time stamps    *)
(* lastSynced and timestamp, the active tab and the status and text        *)
(* properties that handleToggleTaskStatus and handleUpdateWeeklyGoal       *)
(* change are left out.                                                    *)
(***************************************************************************)
\* calls of the handlers that read Date.now()
MaxAdds == 1

\* calls of refreshData, the one of the mount effect included
MaxRefreshes == 2

\* largest actualPomodoros an increment leads to
MaxPomodoros == 1

\* the seconds since 1970 when the page loads
PageLoadSeconds == 1700000000

\* String(Date.now()), n milliseconds after the page loads (n < 1000)
DateNowText(n) == NatToStr(PageLoadSeconds) \o PadStart3(NatToStr(n))

\* user.userId
UserIdOf(user) == user.userId.s

\* what localStorage holds under dailyPulse_userId when the page loads:
\* nothing, the id of a user of the sheet, the id of a mock user the sheet
\* may lack, an id no user has
SavedSessions == { Null, <<"u", "1">>, <<"u", "3">>, <<"u", "9">> }

EmptyStore ==
    [users |-> <<>>, checkouts |-> <<>>, tasks |-> <<>>, weeklyGoals |-> <<>>,
     interactions |-> <<>>]

\* the rows of the store when the page loads
InitialStores ==
    { EmptyStore,
      [EmptyStore EXCEPT !.tasks = <<[taskId |-> <<"t", 0>>, actualPomodoros |-> 1]>>],
      [EmptyStore EXCEPT !.users = <<INITIAL_USERS[1], INITIAL_USERS[2]>>] }

\* the names and roles typed into CreateUserModal
NewNames == { <<"D", "a", "n">> }

UserRoles == { <<"M", "a", "n", "a", "g", "e", "r">>, <<"E", "m", "p", "l", "o", "y", "e", "e">> }

\* newUser of handleCreateUser (lines 214-219) when String(Date.now()) is t
NewUser(name, role, t) ==
    [userId |-> StrInput(<<"u">> \o t),
     name |-> StrInput(name),
     role |-> StrInput(role),
     avatar |-> StrInput(<<"h", "t", "t", "p", "s", ":", "/", "/", "a", "p", "i", ".", "d", "i", "c", "e", "b", "e", "a", "r", ".", "c", "o", "m", "/", "7", ".", "x", "/", "n", "o", "t", "i", "o", "n", "i", "s", "t", "s", "/", "s", "v", "g", "?", "s", "e", "e", "d", "=">> \o name)]

\* the collection syncItem's type names
CollectionOf(type) ==
    CASE type = "Users" -> "users"
      [] type = "Checkouts" -> "checkouts"
      [] type = "Tasks" -> "tasks"
      [] type = "WeeklyGoals" -> "weeklyGoals"
      [] type = "Interactions" -> "interactions"

\* what fetchAppData resolves to when the store holds the rows s (lines
\* 354-367): the user rows are mapped; the other rows are those the app
\* posted, so mapping leaves their identifiers as they are
Response(s) ==
    [users |-> UsersOrInitial([i \in 1..Len(s.users) |-> MapUser(s.users[i])]),
     checkouts |-> dedupeById(s.checkouts, "checkoutId"),
     tasks |-> dedupeById(s.tasks, "taskId"),
     weeklyGoals |-> dedupeById(s.weeklyGoals, "goalId"),
     interactions |-> dedupeById(s.interactions, "interactionId")]

\* data.users.length > 0 ? data.users : INITIAL_USERS (lines 56 and 83)
LoadedUsers(d) == IF Len(d.users) > 0 THEN d.users ELSE INITIAL_USERS

\* allUsers.find(u => u.userId === savedUserId) finds a user (line 85)
Finds(allUsers, savedUserId) ==
    \E i \in 1..Len(allUsers) : UserIdOf(allUsers[i]) = savedUserId

\* the sequence s without its i-th element
RemoveAt(s, i) == SubSeq(s, 1, i - 1) \o SubSeq(s, i + 1, Len(s))

\* refreshData raises loading or isSyncing (lines 50-51)
Raised(flag, mine) == IF mine THEN TRUE ELSE flag

\* refreshData that leaves its flag as it is
Lowered_Kept(flag, mine) == flag

\* refreshData lowers the flag it raised (lines 66-67)
Lowered(flag, mine) == IF mine THEN FALSE ELSE flag

\* Math.max(0, n)
MaxZero_Unclamped(n) == n

MaxZero(n) == IF n < 0 THEN 0 ELSE n

\* tasks.map of handleUpdatePomodoro (lines 176-182)
UpdatedTasks(ts, taskId, increment) ==
    [i \in 1..Len(ts) |->
        IF ts[i].taskId = taskId
        THEN [ts[i] EXCEPT !.actualPomodoros = MaxZero(ts[i].actualPomodoros + increment)]
        ELSE ts[i]]

AppInit ==
    /\ input = NullInput /\ tz = 0 /\ op = "idle" /\ out = <<>> /\ prev = <<>>
    /\ raw = NoBatch /\ data = NoData
    /\ loading = TRUE /\ isSyncing = FALSE
    /\ users = INITIAL_USERS
    /\ currentUser = Null
    /\ checkouts = <<>> /\ tasks = <<>> /\ weeklyGoals = <<>> /\ interactions = <<>>
    /\ dailyPulse_userId \in SavedSessions
    /\ store \in InitialStores
    /\ posts = {}
    /\ refreshes = <<>>
    /\ rehydrate = <<>>
    /\ mounted = FALSE
    /\ now = 1
    /\ calls = 0

\* the call of rehydrateUser the mount effect makes (lines 76-91), up to its
\* await: none when no session is saved
RehydrateCalls(savedUserId) ==
    IF savedUserId # Null
    THEN <<[savedUserId |-> savedUserId, fetched |-> FALSE, data |-> NoData]>>
    ELSE <<>>

\* the mount effect (lines 71-98): the initial refreshData(false) up to its
\* await, rehydrateUser up to its await when a session is saved, and the
\* polling interval
Mount ==
    /\ ~mounted
    /\ mounted' = TRUE
    /\ loading' = Raised(loading, TRUE)
    /\ refreshes' = Append(refreshes, [bg |-> FALSE, fetched |-> FALSE, data |-> NoData])
    /\ calls' = calls + 1
    /\ rehydrate' = RehydrateCalls(dailyPulse_userId)
    /\ UNCHANGED <<ingestVars, isSyncing, users, currentUser, checkouts, tasks, weeklyGoals,
                   interactions, dailyPulse_userId, store, posts, now>>

\* refreshData(isBackground) up to its await (lines 50-53)
StartRefresh(isBackground) ==
    /\ calls < MaxRefreshes
    /\ loading' = Raised(loading, ~isBackground)
    /\ isSyncing' = Raised(isSyncing, isBackground)
    /\ refreshes' = Append(refreshes, [bg |-> isBackground, fetched |-> FALSE, data |-> NoData])
    /\ calls' = calls + 1
    /\ UNCHANGED <<ingestVars, users, currentUser, checkouts, tasks, weeklyGoals,
                   interactions, dailyPulse_userId, store, posts, rehydrate, mounted, now>>

\* the 15-second interval fires (lines 94-96)
PollTick == mounted /\ StartRefresh(TRUE)

\* handleTabChange to the planner or the dashboard (lines 102-108)
HandleTabChange == mounted /\ currentUser # Null /\ StartRefresh(TRUE)

\* the refresh button (line 368)
HandleManualRefresh == mounted /\ currentUser # Null /\ StartRefresh(FALSE)

\* the store answers the request of the i-th pending refreshData
RefreshFetchResolves ==
    \E i \in 1..Len(refreshes) :
        /\ ~refreshes[i].fetched
        /\ refreshes' = [refreshes EXCEPT ![i] = [@ EXCEPT !.fetched = TRUE,
                                                             !.data = Response(store)]]
        /\ UNCHANGED <<ingestVars, loading, isSyncing, users, currentUser, checkouts, tasks,
                       weeklyGoals, interactions, dailyPulse_userId, store, posts, rehydrate,
                       mounted, now, calls>>

\* the request of the i-th pending refreshData fails: fetchAppData resolves
\* to the value of its catch block
RefreshFetchFails ==
    \E i \in 1..Len(refreshes) :
        /\ ~refreshes[i].fetched
        /\ refreshes' = [refreshes EXCEPT ![i] = [@ EXCEPT !.fetched = TRUE,
                                                             !.data = FailureData]]
        /\ UNCHANGED <<ingestVars, loading, isSyncing, users, currentUser, checkouts, tasks,
                       weeklyGoals, interactions, dailyPulse_userId, store, posts, rehydrate,
                       mounted, now, calls>>

\* refreshData after its await (lines 55-67)
RefreshCompletes ==
    \E i \in 1..Len(refreshes) :
        /\ refreshes[i].fetched
        /\ users' = LoadedUsers(refreshes[i].data)
        /\ checkouts' = refreshes[i].data.checkouts
        /\ tasks' = refreshes[i].data.tasks
        /\ weeklyGoals' = refreshes[i].data.weeklyGoals
        /\ interactions' = refreshes[i].data.interactions
        /\ loading' = Lowered(loading, ~refreshes[i].bg)
        /\ isSyncing' = Lowered(isSyncing, refreshes[i].bg)
        /\ refreshes' = RemoveAt(refreshes, i)
        /\ UNCHANGED <<ingestVars, currentUser, dailyPulse_userId, store, posts, rehydrate,
                       mounted, now, calls>>

\* the store answers the request of rehydrateUser (line 82)
RehydrateFetchResolves ==
    \E i \in 1..Len(rehydrate) :
        /\ ~rehydrate[i].fetched
        /\ rehydrate' = [rehydrate EXCEPT ![i] = [@ EXCEPT !.fetched = TRUE,
                                                             !.data = Response(store)]]
        /\ UNCHANGED <<ingestVars, loading, isSyncing, users, currentUser, checkouts, tasks,
                       weeklyGoals, interactions, dailyPulse_userId, store, posts, refreshes,
                       mounted, now, calls>>

\* the request of rehydrateUser fails: fetchAppData resolves to the value of
\* its catch block
RehydrateFetchFails ==
    \E i \in 1..Len(rehydrate) :
        /\ ~rehydrate[i].fetched
        /\ rehydrate' = [rehydrate EXCEPT ![i] = [@ EXCEPT !.fetched = TRUE,
                                                             !.data = FailureData]]
        /\ UNCHANGED <<ingestVars, loading, isSyncing, users, currentUser, checkouts, tasks,
                       weeklyGoals, interactions, dailyPulse_userId, store, posts, refreshes,
                       mounted, now, calls>>

\* rehydrateUser after its await (lines 83-88): the saved id is looked up
\* among the users fetched
RehydrateCompletes ==
    \E i \in 1..Len(rehydrate) :
        /\ rehydrate[i].fetched
        /\ currentUser' = IF Finds(LoadedUsers(rehydrate[i].data), rehydrate[i].savedUserId)
                          THEN rehydrate[i].savedUserId
                          ELSE currentUser
        /\ rehydrate' = RemoveAt(rehydrate, i)
        /\ UNCHANGED <<ingestVars, loading, isSyncing, users, checkouts, tasks, weeklyGoals,
                       interactions, dailyPulse_userId, store, posts, refreshes, mounted, now,
                       calls>>

\* handleLogin (lines 112-116) with a user of the login screen (lines
\* 244-279), which lists users once loading is false
HandleLogin ==
    /\ mounted /\ currentUser = Null /\ ~loading
    /\ \E i \in 1..Len(users) :
           /\ currentUser' = UserIdOf(users[i])
           /\ dailyPulse_userId' = UserIdOf(users[i])
    /\ UNCHANGED <<ingestVars, loading, isSyncing, users, checkouts, tasks, weeklyGoals,
                   interactions, store, posts, refreshes, rehydrate, mounted, now, calls>>

\* handleLogout (lines 118-121)
HandleLogout ==
    /\ currentUser # Null
    /\ currentUser' = Null
    /\ dailyPulse_userId' = Null
    /\ UNCHANGED <<ingestVars, loading, isSyncing, users, checkouts, tasks, weeklyGoals,
                   interactions, store, posts, refreshes, rehydrate, mounted, now, calls>>

\* syncItem(type, payload) up to its await (lines 376-384)
Posted(type, payload) == posts \cup { [type |-> type, payload |-> payload] }

\* handleCreateUser (lines 213-230) from the modal of the login screen (lines
\* 281-294), handleLogin(newUser) included
HandleCreateUser ==
    /\ mounted /\ currentUser = Null /\ ~loading /\ now <= MaxAdds
    /\ \E name \in NewNames, role \in UserRoles :
           /\ users' = Append(users, NewUser(name, role, DateNowText(now)))
           /\ posts' = Posted("Users", NewUser(name, role, DateNowText(now)))
           /\ currentUser' = UserIdOf(NewUser(name, role, DateNowText(now)))
           /\ dailyPulse_userId' = UserIdOf(NewUser(name, role, DateNowText(now)))
    /\ now' = now + 1
    /\ UNCHANGED <<ingestVars, loading, isSyncing, checkouts, tasks, weeklyGoals,
                   interactions, store, refreshes, rehydrate, mounted, calls>>

\* handleAddCheckout (lines 123-133)
HandleAddCheckout ==
    /\ currentUser # Null /\ now <= MaxAdds
    /\ checkouts' = <<[checkoutId |-> <<"c", now>>]>> \o checkouts
    /\ posts' = Posted("Checkouts", [checkoutId |-> <<"c", now>>])
    /\ now' = now + 1
    /\ UNCHANGED <<ingestVars, loading, isSyncing, users, currentUser, tasks, weeklyGoals,
                   interactions, dailyPulse_userId, store, refreshes, rehydrate, mounted, calls>>

\* handleAddKudos (lines 135-146)
HandleAddKudos ==
    /\ currentUser # Null /\ now <= MaxAdds
    /\ interactions' = interactions \o <<[interactionId |-> <<"i", now>>, type |-> "kudos"]>>
    /\ posts' = Posted("Interactions", [interactionId |-> <<"i", now>>, type |-> "kudos"])
    /\ now' = now + 1
    /\ UNCHANGED <<ingestVars, loading, isSyncing, users, currentUser, checkouts, tasks,
                   weeklyGoals, dailyPulse_userId, store, refreshes, rehydrate, mounted, calls>>

\* handleAddReply (lines 148-160)
HandleAddReply ==
    /\ currentUser # Null /\ now <= MaxAdds
    /\ interactions' = interactions \o <<[interactionId |-> <<"i", now>>, type |-> "reply"]>>
    /\ posts' = Posted("Interactions", [interactionId |-> <<"i", now>>, type |-> "reply"])
    /\ now' = now + 1
    /\ UNCHANGED <<ingestVars, loading, isSyncing, users, currentUser, checkouts, tasks,
                   weeklyGoals, dailyPulse_userId, store, refreshes, rehydrate, mounted, calls>>

\* handleAddTask (lines 164-173), from the planner of a logged-in user
HandleAddTask ==
    /\ currentUser # Null /\ now <= MaxAdds
    /\ tasks' = <<[taskId |-> <<"t", now>>, actualPomodoros |-> 0]>> \o tasks
    /\ posts' = Posted("Tasks", [taskId |-> <<"t", now>>, actualPomodoros |-> 0])
    /\ now' = now + 1
    /\ UNCHANGED <<ingestVars, loading, isSyncing, users, currentUser, checkouts, weeklyGoals,
                   interactions, dailyPulse_userId, store, refreshes, rehydrate, mounted, calls>>

\* handleAddWeeklyGoal (lines 195-202), from the planner of a logged-in user
HandleAddWeeklyGoal ==
    /\ currentUser # Null /\ now <= MaxAdds
    /\ weeklyGoals' = <<[goalId |-> <<"g", now>>]>> \o weeklyGoals
    /\ posts' = Posted("WeeklyGoals", [goalId |-> <<"g", now>>])
    /\ now' = now + 1
    /\ UNCHANGED <<ingestVars, loading, isSyncing, users, currentUser, checkouts, tasks,
                   interactions, dailyPulse_userId, store, refreshes, rehydrate, mounted, calls>>

\* handleUpdatePomodoro (lines 175-184) with an increment of +1 or -1; op
\* and prev record the call: prev is the sum before Math.max
HandleUpdatePomodoro ==
    /\ currentUser # Null
    /\ \E i \in 1..Len(tasks), increment \in { 1, -1 } :
           /\ tasks[i].actualPomodoros + increment <= MaxPomodoros
           /\ tasks' = UpdatedTasks(tasks, tasks[i].taskId, increment)
           /\ prev' = <<tasks[i].actualPomodoros + increment>>
    /\ op' = "handleUpdatePomodoro"
    /\ UNCHANGED <<input, tz, out, raw, data, loading, isSyncing, users, currentUser,
                   checkouts, weeklyGoals, interactions, dailyPulse_userId, store, posts,
                   refreshes, rehydrate, mounted, now, calls>>

\* the POST of syncItem reaches the store, which appends the row
SyncLands ==
    \E p \in posts :
        /\ store' = [store EXCEPT ![CollectionOf(p.type)] = Append(@, p.payload)]
        /\ posts' = posts \ { p }
        /\ UNCHANGED <<ingestVars, loading, isSyncing, users, currentUser, checkouts, tasks,
                       weeklyGoals, interactions, dailyPulse_userId, refreshes, rehydrate,
                       mounted, now, calls>>

\* the POST of syncItem fails: the catch block logs the error (lines 385-387)
SyncFails ==
    \E p \in posts :
        /\ posts' = posts \ { p }
        /\ UNCHANGED <<ingestVars, loading, isSyncing, users, currentUser, checkouts, tasks,
                       weeklyGoals, interactions, dailyPulse_userId, store, refreshes, rehydrate,
                       mounted, now, calls>>

\* the handlers of the login screen and of a logged-in user, the calls they
\* start and the answers of the store
Handlers ==
    \/ PollTick \/ HandleTabChange \/ HandleManualRefresh
    \/ RefreshFetchResolves \/ RefreshFetchFails \/ RefreshCompletes
    \/ HandleLogin \/ HandleLogout \/ HandleCreateUser
    \/ HandleAddCheckout \/ HandleAddKudos \/ HandleAddReply \/ HandleAddTask
    \/ HandleAddWeeklyGoal \/ HandleUpdatePomodoro
    \/ SyncLands \/ SyncFails

\* the component from its construction: mounting, the session, and all that
\* follows
AppNext ==
    \/ Mount
    \/ RehydrateFetchResolves \/ RehydrateFetchFails \/ RehydrateCompletes
    \/ Handlers

AppSpec == AppInit /\ [][AppNext]_vars

\* every request is answered or fails, and every continuation runs
AppFairness ==
    /\ WF_vars(RefreshFetchResolves \/ RefreshFetchFails)
    /\ WF_vars(RefreshCompletes)

AppLiveSpec == AppSpec /\ AppFairness

\* a state AppSpec reaches: mounted, no session saved, the first refresh
\* completed, u1 logged in from the login screen
EditInit ==
    /\ input = NullInput /\ tz = 0 /\ op = "idle" /\ out = <<>> /\ prev = <<>>
    /\ raw = NoBatch /\ data = NoData
    /\ loading = FALSE /\ isSyncing = FALSE
    /\ store \in InitialStores
    /\ users = LoadedUsers(Response(store))
    /\ currentUser = <<"u", "1">>
    /\ checkouts = Response(store).checkouts /\ tasks = Response(store).tasks
    /\ weeklyGoals = Response(store).weeklyGoals
    /\ interactions = Response(store).interactions
    /\ dailyPulse_userId = <<"u", "1">>
    /\ posts = {}
    /\ refreshes = <<>>
    /\ rehydrate = <<>>
    /\ mounted = TRUE
    /\ now = 1
    /\ calls = 1

\* the component once mounted, with no rehydrateUser pending
EditNext == Handlers

EditSpec == EditInit /\ [][EditNext]_vars

(***************************************************************************)
(* Reference notions used to state the properties                          *)
(***************************************************************************)
\* four digits, dash, two digits, dash, two digits
StrictForm(s) ==
    Len(s) = 10 /\ \A i \in 1..10 : IF i \in {5, 8} THEN s[i] = "-" ELSE IsDigit(s[i])

IsLeapYear(y) == (y % 4 = 0 /\ y % 100 # 0) \/ y % 400 = 0

DaysInMonth(y, m) ==
    IF m = 2 THEN (IF IsLeapYear(y) THEN 29 ELSE 28)
    ELSE IF m \in {4, 6, 9, 11} THEN 30 ELSE 31

YearOf(s) == DigitsToNat(SubSeq(s, 1, 4))

MonthOf(s) == DigitsToNat(SubSeq(s, 6, 7))

DayOf(s) == DigitsToNat(SubSeq(s, 9, 10))

\* a strict YYYY-MM-DD string that denotes a real calendar date
IsRealCanonical(s) ==
    /\ StrictForm(s)
    /\ MonthOf(s) >= 1 /\ MonthOf(s) <= 12
    /\ DayOf(s) >= 1 /\ DayOf(s) <= DaysInMonth(YearOf(s), MonthOf(s))

\* the day number of a real canonical date
DayNumberOf(s) == MakeDay(YearOf(s), MonthOf(s) - 1, DayOf(s))

IsPrefixOf(p, s) == Len(p) <= Len(s) /\ SubSeq(s, 1, Len(p)) = p

\* the UTC day of an instant 12 hours after t
HalfDayLater(t) == IF t.ms >= 12 * msPerHour THEN t.day + 1 ELSE t.day

\* the inputs that carry the absolute instant t, with the expected string
PivotCasesOf(t, s) ==
    { <<DateInput(t), s>>, <<StrInput(IsoZStr(t)), s>>,
      <<StrInput(IsoMsZStr(t)), s>>, <<StrInput(EpochStr(t)), s>> }

\* inputs that carry an absolute instant t, with the day of t + 12 h
PivotCases == UNION { PivotCasesOf(t, CanonOfDay(HalfDayLater(t))) : t \in Instants }

\* strings that carry the local time t of a zone k hours ahead of UTC, with
\* the UTC day of the instant t - k h + 12 h
LocalPivotCases ==
    { <<StrInput(IsoLocalStr(c[1])), c[2],
        CanonOfDay(c[1].day + ((c[1].ms + (12 - c[2]) * msPerHour) \div msPerDay))>> :
        c \in Instants \X TZOffsets }

Str_2024_03_04 == <<"2", "0", "2", "4", "-", "0", "3", "-", "0", "4">>

Str_2024_03_05 == <<"2", "0", "2", "4", "-", "0", "3", "-", "0", "5">>

Str_2024_06_11 == <<"2", "0", "2", "4", "-", "0", "6", "-", "1", "1">>

Str_2024_02_30 == <<"2", "0", "2", "4", "-", "0", "2", "-", "3", "0">>

Iso_0304_2330Z == <<"2", "0", "2", "4", "-", "0", "3", "-", "0", "4", "T", "2", "3", ":", "3", "0", ":", "0", "0", "Z">>

Iso_0304_0500Z == <<"2", "0", "2", "4", "-", "0", "3", "-", "0", "4", "T", "0", "5", ":", "0", "0", ":", "0", "0", "Z">>

Str_NotADate == <<"n", "o", "t", " ", "a", " ", "d", "a", "t", "e">>

(***************************************************************************)
(* Properties of normalizeDate                                             *)
(***************************************************************************)
\* C1: normalizeDate returns every strict YYYY-MM-DD string unchanged, and
\* normalizing the result of such a call again returns the same string.
C1_StrictUnchanged ==
    /\ (op = "normalizeDate" /\ input.kind = "str" /\ StrictForm(input.s))
          => out = input.s
    /\ (op = "normalizeDate2" /\ input.kind = "str" /\ StrictForm(input.s))
          => (prev = input.s /\ out = prev)

C1_Witness ==
    /\ op = "normalizeDate2"
    /\ input = StrInput(Str_2024_02_30)
    /\ prev = Str_2024_02_30
    /\ out = Str_2024_02_30

\* C2: whatever the input, normalizeDate returns the empty string
\* or a YYYY-MM-DD string that denotes a real calendar date.
C2_AlwaysEmptyOrRealDate ==
    op = "normalizeDate" => (out = <<>> \/ IsRealCanonical(out))

\* C3: a Date object, a time-bearing string or an epoch marker is normalized
\* to the UTC calendar day of its instant plus exactly 12 hours; a time-less
\* strict string is not shifted.
C3_PivotShift ==
    op = "normalizeDate" =>
        /\ \A c \in PivotCases : input = c[1] => out = c[2]
        /\ \A c \in LocalPivotCases : (input = c[1] /\ tz = c[2]) => out = c[3]
        /\ (input = StrInput(Iso_0304_2330Z) => out = Str_2024_03_05)
        /\ (input = StrInput(Iso_0304_0500Z) => out = Str_2024_03_04)
        /\ (input = StrInput(Iso_0610_2215Z) => out = Str_2024_06_11)
        /\ (input = StrInput(Str_2024_06_10) => out = Str_2024_06_10)

C3_Witness ==
    /\ op = "normalizeDate"
    /\ input = StrInput(Iso_0304_2330Z)
    /\ out = Str_2024_03_05

\* offsets of the zones the pivot is documented for (storage.ts 157-158)
DocumentedOffsets == -12..12

\* t is midnight of a local day in the zone k hours ahead of UTC
IsLocalMidnight(t, k) == (t.ms + k * msPerHour) % msPerDay = 0

\* the local day of t in the zone k hours ahead of UTC
LocalDayIn(t, k) == t.day + ((t.ms + k * msPerHour) \div msPerDay)

\* C4: for every calendar day D and every whole-hour offset k in -12..+12
\* (both ends included), normalizeDate maps the UTC instant of local
\* midnight of D in the zone of offset k to D.
C4_LocalMidnightGivesDay ==
    (op = "normalizeDate" /\ input.kind = "date" /\ input.t.valid) =>
        \A k \in DocumentedOffsets :
            IsLocalMidnight(input.t, k) => out = CanonOfDay(LocalDayIn(input.t, k))

\* YYYY-MM-DD of a year string, a month number and a day number
Rebuilt(y, m, d) ==
    y \o <<"-">> \o PadStart2(NatToStr(m)) \o <<"-">> \o PadStart2(NatToStr(d))

\* C5: a numeric D/M/Y or D-M-Y string with a 4-digit year whose two leading
\* groups are both at most 12 is normalized day-first: the first group is
\* the day and the second the month.
C5_AmbiguousIsDayFirst ==
    op = "normalizeDate" =>
        \A c \in DmyTable :
            (/\ input = StrInput(c.s)
             /\ c.p1 >= 1 /\ c.p1 <= 12 /\ c.p2 >= 1 /\ c.p2 <= 12)
                => out = Rebuilt(c.y, c.p2, c.p1)

\* C6: a numeric D/M/Y or D-M-Y string with a 4-digit year in which exactly
\* one leading group is greater than 12 is normalized with that group as the
\* day and the other group as the month.
C6_GroupAbove12IsDay ==
    op = "normalizeDate" =>
        \A c \in DmyTable :
            /\ (input = StrInput(c.s) /\ c.p1 > 12 /\ c.p2 <= 12)
                  => out = Rebuilt(c.y, c.p2, c.p1)
            /\ (input = StrInput(c.s) /\ c.p1 <= 12 /\ c.p2 > 12)
                  => out = Rebuilt(c.y, c.p1, c.p2)

\* C7: an input that matches the numeric D[-/]M[-/]YYYY pattern is rebuilt
\* directly from its three groups and never goes through generic date
\* parsing and the 12-hour pivot.
C7_DmyBeforeGenericParsing ==
    (op = "normalizeDate" /\ input.kind = "str" /\ DmyMatch(Trim(input.s)).some)
        => out = DmyRebuild(DmyMatch(Trim(input.s)))

\* the string is accepted by no rule of normalizeDate
RejectedByEveryRule(str, tzo) ==
    /\ str # <<>>
    /\ ~StrictForm(str)
    /\ ~ParseToDate(str, tzo).some
    /\ ~DmyMatch(str).some

\* C8: normalizeDate never throws; null and '' give ''; an input that every
\* parsing rule rejects gives '' or a prefix of the trimmed input, of at most
\* 10 characters, that depends on the input alone.
C8_NeverThrows ==
    op = "normalizeDate" =>
        /\ out # Thrown
        /\ (IsFalsy(input) => out = <<>>)
        /\ (input.kind = "str" /\ RejectedByEveryRule(Trim(input.s), tz))
              => (IsPrefixOf(out, Trim(input.s)) /\ Len(out) <= 10
                    /\ \A k \in TZOffsets : normalizeDate(input, k) = out)
        /\ (input = StrInput(Str_NotADate) => out = Str_NotADate)

C8_Witness ==
    /\ op = "normalizeDate"
    /\ input = StrInput(Str_NotADate)
    /\ out = Str_NotADate

(***************************************************************************)
(* Properties of snapToMonday                                              *)
(***************************************************************************)
\* C9: for every canonical date d that denotes a real calendar date,
\* snapToMonday(d) is a canonical date that is a Monday, on or before d and
\* at most 6 days before d.
C9_MondayOnOrBefore ==
    (op = "snapToMonday" /\ input.kind = "str" /\ IsRealCanonical(input.s)) =>
        /\ IsRealCanonical(out)
        /\ WeekDay(DayNumberOf(out)) = 1
        /\ DayNumberOf(out) <= DayNumberOf(input.s)
        /\ DayNumberOf(out) >= DayNumberOf(input.s) - 6

\* C10: for every canonical date d that is a Monday, snapToMonday(d) = d.
C10_MondayFixed ==
    (/\ op = "snapToMonday" /\ input.kind = "str" /\ IsRealCanonical(input.s)
     /\ WeekDay(DayNumberOf(input.s)) = 1)
        => out = input.s

\* C9 and C10 from the year 1000 on, where the year of the result has four
\* digits and new Date(y, m, d) takes y as it stands
SnapFromYear1000 ==
    (/\ op = "snapToMonday" /\ input.kind = "str" /\ IsRealCanonical(input.s)
     /\ YearOf(input.s) >= 1000 /\ DayNumberOf(input.s) >= MakeDay(1000, 0, 6))
        => /\ IsRealCanonical(out)
           /\ WeekDay(DayNumberOf(out)) = 1
           /\ DayNumberOf(out) <= DayNumberOf(input.s)
           /\ DayNumberOf(out) >= DayNumberOf(input.s) - 6
           /\ (WeekDay(DayNumberOf(input.s)) = 1 => out = input.s)

\* C11: for every strict YYYY-MM-DD string d, snapToMonday(snapToMonday(d))
\* = snapToMonday(d).
C11_SnapIdempotent ==
    (op = "snapToMonday2" /\ input.kind = "str" /\ StrictForm(input.s)) => out = prev

Str_2024_03_31 == <<"2", "0", "2", "4", "-", "0", "3", "-", "3", "1">>

Str_2024_03_25 == <<"2", "0", "2", "4", "-", "0", "3", "-", "2", "5">>

\* the input is a real canonical date, a Sunday and the last day of its month
IsMonthEndSunday(in) ==
    /\ in.kind = "str" /\ IsRealCanonical(in.s)
    /\ DayOf(in.s) = DaysInMonth(YearOf(in.s), MonthOf(in.s))
    /\ WeekDay(DayNumberOf(in.s)) = 0

\* months since year 0 of a strict string
MonthIndex(s) == YearOf(s) * 12 + MonthOf(s)

\* the number of the i-th dash-separated component of s, -1 if there is none
ComponentOf(s, i) ==
    IF Len(Split(s)) >= i /\ IsDateArg(ToNumber(Split(s)[i]))
    THEN ToInteger(ToNumber(Split(s)[i]))
    ELSE -1

NotThreeNumbers(s) ==
    \/ Len(Split(s)) # 3
    \/ \E i \in 1..3 : ToNumber(Split(s)[i]).nan

\* C13: if the string given to snapToMonday does not parse into exactly
\* three numeric components (neither as given nor after normalization),
\* snapToMonday returns the given string unchanged and does not throw.
C13_UnparsedReturnedUnchanged ==
    (/\ op = "snapToMonday" /\ input.kind = "str"
     /\ NotThreeNumbers(input.s) /\ NotThreeNumbers(normalizeDate(input, tz)))
        => (out = input.s /\ out # Thrown)

\* C14: for every string x, snapToMonday(x) = snapToMonday(normalizeDate(x)).
C14_SnapNormalizesFirst ==
    (op = "snapOfNormalized" /\ input.kind = "str") => out = snapToMonday(input, tz)

\* C15: for every strict YYYY-MM-DD string d, snapToMonday(d) is the same
\* under every runtime timezone.
C15_SnapSameInEveryZone ==
    (op = "snapToMonday" /\ input.kind = "str" /\ StrictForm(input.s)) =>
        \A k \in TZOffsets : snapToMonday(input, k) = out

C15_Witness ==
    /\ op = "snapToMonday"
    /\ tz = 14
    /\ input = StrInput(Str_2024_03_04)
    /\ out = Str_2024_03_04

(***************************************************************************)
(* Properties of fetchAppData                                              *)
(***************************************************************************)
\* the raw record r of collection k after mapping, before deduplication
MapRow(k, r, tzo) ==
    CASE k = "users" -> MapUser(r) [] k = "checkouts" -> MapCheckout(r, tzo)
      [] k = "tasks" -> MapTask(r, tzo) [] k = "weeklyGoals" -> MapGoal(r, tzo)
      [] k = "interactions" -> MapInteraction(r)

\* the raw records of collection k after mapping, before deduplication
MappedRows(k) == [i \in 1..Len(raw[k]) |-> MapRow(k, raw[k][i], tz)]

\* the i-th of the mapped rows is the last one with its identifier
IsLastWithId(rows, idKey, i) ==
    \A j \in (i + 1)..Len(rows) : rows[j][idKey] # rows[i][idKey]

\* the collection kept has one record per identifier, holds the last of the
\* mapped rows of every identifier, and nothing else
OnePerIdLastWins(kept, rows, idKey) ==
    /\ \A p, q \in 1..Len(kept) : p # q => kept[p][idKey] # kept[q][idKey]
    /\ \A i \in 1..Len(rows) :
           IsLastWithId(rows, idKey, i) => \E p \in 1..Len(kept) : kept[p] = rows[i]
    /\ Len(rows) > 0 =>
           \A p \in 1..Len(kept) :
               \E i \in 1..Len(rows) : IsLastWithId(rows, idKey, i) /\ kept[p] = rows[i]

\* C16: each collection returned by fetchAppData holds at most one record
\* per identifier, and for each identifier of the raw batch it holds the last
\* raw record with that identifier, and nothing else.
C16_OnePerIdLastWins ==
    op = "fetched" =>
        \A k \in Kinds :
            \A rows \in { MappedRows(k) } : OnePerIdLastWins(data[k], rows, IdKey(k))

C16_Witness ==
    /\ op = "fetched"
    /\ Len(raw.tasks) = 3
    /\ raw.tasks[1] = ("taskId" :> IdA) @@ ("taskDescription" :> RowTag(1))
    /\ raw.tasks[2] = ("taskId" :> IdB) @@ ("taskDescription" :> RowTag(2))
    /\ raw.tasks[3] = ("taskId" :> IdPaddedA) @@ ("taskDescription" :> RowTag(3))
    /\ Len(data.tasks) = 2
    /\ data.tasks[1].taskId = IdA /\ data.tasks[1].taskDescription = RowTag(3)
    /\ data.tasks[2].taskId = IdB /\ data.tasks[2].taskDescription = RowTag(2)

\* the raw record carries no identifier under either spelling
LacksId(k, r) == Falsy(Probe(r, IdKey(k), PascalIdKey(k)))

\* C17: every raw record that lacks an identifier is present in the returned
\* collection, under a generated (non-empty) identifier.
C17_RecordsWithoutIdKept ==
    op = "fetched" =>
        \A k \in Kinds :
            \A i \in 1..Len(raw[k]) :
                LacksId(k, raw[k][i]) =>
                    \E p \in 1..Len(data[k]) :
                        /\ data[k][p][TagKey(k)] = raw[k][i][TagKey(k)]
                        /\ data[k][p][IdKey(k)] # StrInput(<<>>)

\* a value that is "" or a strict YYYY-MM-DD string
IsEmptyOrStrict(v) == v.kind = "str" /\ (v.s = <<>> \/ StrictForm(v.s))

\* C18: every date-bearing field (checkout date, task scheduledDate and
\* weekOfDate, weekly-goal weekOfDate, startDate and endDate) of every record
\* returned by fetchAppData is "" or a strict YYYY-MM-DD string.
C18_DateFieldsCanonical ==
    op = "fetched" =>
        \A k \in Kinds :
            \A p \in 1..Len(data[k]) :
                \A f \in DateKeys(k) :
                    f[1] \in DOMAIN data[k][p] => IsEmptyOrStrict(data[k][p][f[1]])

\* a string that is "" or a real canonical date that is a Monday
IsEmptyOrMonday(s) == s = <<>> \/ (IsRealCanonical(s) /\ WeekDay(DayNumberOf(s)) = 1)

\* C19: the weekOfDate of every task and every weekly goal returned by
\* fetchAppData falls on a Monday (or is "" when the record has none).
C19_WeekAnchorsAreMondays ==
    op = "fetched" =>
        \A k \in { "tasks", "weeklyGoals" } :
            \A p \in 1..Len(data[k]) : IsEmptyOrMonday(data[k][p].weekOfDate.s)

\* the record r with the value of its property p moved to the name c
CamelTwin(r, c, p) ==
    [x \in (DOMAIN r \ { p }) \cup { c } |-> IF x = c THEN r[p] ELSE r[x]]

\* the record r without its property p
WithoutProperty(r, p) == [x \in DOMAIN r \ { p } |-> r[x]]

\* a record that carries the value of the date-bearing property under the
\* camelCase name c only: r with the value moved from the PascalCase name p
\* when r has no c, r without p when r has both
CamelOnly(r, c, p) ==
    IF c \in DOMAIN r THEN WithoutProperty(r, p) ELSE CamelTwin(r, c, p)

\* the raw record has the property under the PascalCase name alone, or
\* under both names with non-empty values
PascalOrBoth(r, c, p) ==
    /\ p \in DOMAIN r
    /\ c \in DOMAIN r => (~Falsy(r[c]) /\ ~Falsy(r[p]))

\* the mapped record o of the raw record r follows the claim for the
\* date-bearing property with camelCase name c and PascalCase name p
ProbedBothSpellings(k, r, o, c, p, tzo) ==
    PascalOrBoth(r, c, p) =>
        (c \in DOMAIN o /\ o[c] = MapRow(k, CamelOnly(r, c, p), tzo)[c])

\* C20: for each date-bearing field, a raw record that carries the value
\* only under the PascalCase name yields the same field as a record carrying
\* it under the camelCase name, and when both are present and non-empty the
\* camelCase value is used.
C20_BothSpellingsProbed ==
    op = "fetched" =>
        \A k \in Kinds :
            Len(raw[k]) = 1 =>
                \A f \in DateKeys(k) :
                    ProbedBothSpellings(k, raw[k][1], data[k][1], f[1], f[2], tz)

\* the date-bearing properties that fetchAppData maps (lines 308, 309, 324,
\* 337)
MappedDateKeys(k) == DateKeys(k) \ { <<"startDate", "StartDate">>, <<"endDate", "EndDate">> }

\* C20 for the mapped properties, where it holds
MappedDateKeysProbed ==
    op = "fetched" =>
        \A k \in Kinds :
            Len(raw[k]) = 1 =>
                \A f \in MappedDateKeys(k) :
                    ProbedBothSpellings(k, raw[k][1], data[k][1], f[1], f[2], tz)

\* the input is a day, a month abbreviation and a four-digit year that name
\* a day of the calendar
IsNamedMonthDate(c, in) ==
    in = StrInput(c.s) /\ c.d <= DaysInMonth(c.y, c.m)

\* C21: a day, a 3-letter month abbreviation and a 4-digit year (25-Oct-2024)
\* normalize to that year, the month of the abbreviation and that day
\* (2024-10-25), whatever the time zone.
C21_MonthNameRebuilt ==
    op = "normalizeDate" =>
        \A c \in NamedTable : IsNamedMonthDate(c, input) => out = YMDStr(c.y, c.m, c.d)

\* C21 in the zones from UTC-11 to UTC+12, where it holds
MonthNameRebuiltInland ==
    (op = "normalizeDate" /\ tz >= -11 /\ tz <= 12) =>
        \A c \in NamedTable : IsNamedMonthDate(c, input) => out = YMDStr(c.y, c.m, c.d)

\* the first 10 characters of s, all of s when it is shorter
FirstTen(s) == SubSeq(s, 1, IF Len(s) < 10 THEN Len(s) ELSE 10)

\* C22: when no parsing rule accepts a non-empty input string, the result is
\* exactly the first 10 characters of the trimmed input.
C22_FallbackIsFirstTen ==
    (/\ op = "normalizeDate" /\ input.kind = "str" /\ input.s # <<>>
     /\ (Trim(input.s) = <<>> \/ RejectedByEveryRule(Trim(input.s), tz)))
        => out = FirstTen(Trim(input.s))

C22_Witness ==
    op = "normalizeDate" /\ input = StrInput(Str_NotADateAtAll) /\ out = Str_NotADate

(***************************************************************************)
(* Properties of fetchAppData's failure path                               *)
(***************************************************************************)
\* C23: fetchAppData never rejects; when the request fails, the status is
\* not OK or the body cannot be parsed, it resolves to empty checkouts,
\* tasks, weeklyGoals and interactions and to the users INITIAL_USERS.
C23_FailureResolvesEmpty ==
    /\ op # "idle" => DOMAIN data = Kinds
    /\ op \in FailureCauses =>
           /\ data.users = INITIAL_USERS
           /\ \A k \in Kinds \ { "users" } : data[k] = <<>>

C23_Witness ==
    /\ op = "statusNotOk" /\ Len(raw.tasks) = 2
    /\ data.tasks = <<>> /\ data.users = INITIAL_USERS

\* C24: the users returned by fetchAppData are never empty; when the store
\* returns no user rows, or the fetch fails, they are INITIAL_USERS.
C24_UsersNeverEmpty ==
    op # "idle" =>
        /\ Len(data.users) >= 1
        /\ (op \in FailureCauses \/ raw.users = <<>>) => data.users = INITIAL_USERS

C24_Witness ==
    /\ op = "fetched" /\ raw.users = <<>> /\ Len(raw.tasks) = 1
    /\ Len(data.tasks) = 1 /\ data.users = INITIAL_USERS

\* C25: normalizeDate is idempotent on its own outputs for every input:
\* normalizeDate(normalizeDate(x)) = normalizeDate(x).
C25_NormalizeIdempotent == op = "normalizeDate2" => out = prev

(***************************************************************************)
(* The order of the deduplicated records                                   *)
(***************************************************************************)
\* the index of the first of the rows with the identifier id
FirstIndex(rows, idKey, id) ==
    CHOOSE i \in 1..Len(rows) :
        rows[i][idKey] = id /\ \A j \in 1..(i - 1) : rows[j][idKey] # id

\* the index of the last of the rows with the identifier id
LastIndex(rows, idKey, id) ==
    CHOOSE i \in 1..Len(rows) :
        rows[i][idKey] = id /\ \A j \in (i + 1)..Len(rows) : rows[j][idKey] # id

\* kept lists the identifiers of rows in the order of their first
\* occurrence, each with the last of the rows that carry it
InFirstOccurrenceOrder(kept, rows, idKey) ==
    /\ { kept[p][idKey] : p \in 1..Len(kept) } = { rows[i][idKey] : i \in 1..Len(rows) }
    /\ \A p \in 1..Len(kept) : kept[p] = rows[LastIndex(rows, idKey, kept[p][idKey])]
    /\ \A p, q \in 1..Len(kept) :
           p < q => FirstIndex(rows, idKey, kept[p][idKey])
                        < FirstIndex(rows, idKey, kept[q][idKey])

\* C26: dedupeById lists the distinct identifiers in the order in which each
\* first appears in its input, and the record at that position is the last
\* input record with that identifier.
C26_FirstOccurrenceOrder ==
    op = "fetched" =>
        \A k \in Kinds :
            \A rows \in { MappedRows(k) } :
                Len(rows) > 0 => InFirstOccurrenceOrder(data[k], rows, IdKey(k))

C26_Witness ==
    /\ op = "fetched"
    /\ Len(raw.tasks) = 3
    /\ raw.tasks[1] = ("taskId" :> IdB) @@ ("taskDescription" :> RowTag(1))
    /\ raw.tasks[2] = ("taskId" :> IdA) @@ ("taskDescription" :> RowTag(2))
    /\ raw.tasks[3] = ("taskId" :> IdB) @@ ("taskDescription" :> RowTag(3))
    /\ Len(data.tasks) = 2
    /\ data.tasks[1].taskId = IdB /\ data.tasks[1].taskDescription = RowTag(3)
    /\ data.tasks[2].taskId = IdA /\ data.tasks[2].taskDescription = RowTag(2)

(***************************************************************************)
(* Properties of the App component                                         *)
(***************************************************************************)
\* the identifiers of the records of a collection
IdsOf(items, idKey) == { items[i][idKey] : i \in 1..Len(items) }

\* every record of before that an add handler made (its identifier carries
\* a value of Date.now(), which starts at 1) has a record in after
LocalAddsKeptIn(before, after, idKey) ==
    \A id \in IdsOf(before, idKey) : id[2] >= 1 => id \in IdsOf(after, idKey)

\* C27: a record added locally by an add handler stays in its in-memory
\* collection in every later state, whatever refreshData calls are in flight
\* or start afterwards.
C27_LocalAddsKept ==
    [][/\ LocalAddsKeptIn(checkouts, checkouts', "checkoutId")
       /\ LocalAddsKeptIn(tasks, tasks', "taskId")
       /\ LocalAddsKeptIn(weeklyGoals, weeklyGoals', "goalId")
       /\ LocalAddsKeptIn(interactions, interactions', "interactionId")]_vars

\* C28: whenever currentUser is non-null the session key dailyPulse_userId
\* equals its userId, and once the key is absent and currentUser is null
\* (after handleLogout) currentUser becomes non-null only together with the
\* key (handleLogin).
C28_SessionConsistent ==
    /\ [](currentUser # Null => dailyPulse_userId = currentUser)
    /\ [][(currentUser = Null /\ dailyPulse_userId = Null)
             => (currentUser' = Null \/ dailyPulse_userId' = currentUser')]_vars

\* C29: once no refreshData call is in flight, loading and isSyncing are
\* both false, and whenever calls are in flight they all complete, also when
\* their fetch fails.
C29_FlagsCleared ==
    /\ []((mounted /\ refreshes = <<>>) => (~loading /\ ~isSyncing))
    /\ (refreshes # <<>>) ~> (refreshes = <<>> /\ ~loading /\ ~isSyncing)

\* every refreshData call has completed, the last of them after a failed
\* fetch (the store holds a task, the component holds none)
C29_Witness ==
    /\ mounted /\ calls = MaxRefreshes /\ refreshes = <<>>
    /\ store.tasks # <<>> /\ tasks = <<>>
    /\ ~loading /\ ~isSyncing

\* C30: after any sequence of handleUpdatePomodoro calls with increments +1
\* or -1, every task's actualPomodoros is at least 0.
C30_PomodorosNonNegative ==
    \A i \in 1..Len(tasks) : tasks[i].actualPomodoros >= 0

\* a decrement at 0 has left the count at 0
C30_Witness ==
    /\ op = "handleUpdatePomodoro" /\ prev = <<-1>>
    /\ \E i \in 1..Len(tasks) : tasks[i].actualPomodoros = 0

====
